---- MODULE Spec2Model ----
(***************************************************************************)
(* Model of vulnify-cli: DependencyDetector                                *)
(* (src/src/services/detector.ts), DependencyParser and MongoApiClient     *)
(* (src/src/services/parser.ts), ConfigManager (src/src/utils/config.ts)   *)
(* and the test command (src/src/commands/test.ts).                        *)
(*                                                                         *)
(* Paths are sequences of path segments (the result of splitting on        *)
(* path.sep), so that path.join, path.dirname, path.basename and           *)
(* a.path.split(path.sep).length are computed on them.                     *)
(*                                                                         *)
(* Confidences are IEEE-754 doubles in the source.  A double x is written  *)
(* here as the integer 10*h + e, where h = round(100*x) and e is 0 when x  *)
(* is the double nearest to h/100, -1 when it lies below it and +1 when    *)
(* it lies above it: 900 is 0.9, 499 is 0.49999999999999994 (the double    *)
(* that 0.7 - 0.2 evaluates to), 199 is 0.19999999999999998 (0.3 - 0.1).   *)
(* The encoding keeps the order of the doubles the detector can store.     *)
(***************************************************************************)
EXTENDS Integers, Sequences, FiniteSets, TLC

VARIABLES
    disk,           \* the file system: the set of absolute paths of the files on disk
    maxDepth,       \* DependencyDetector.maxDepth
    detectedFiles,  \* the DetectedFile[] returned by detectFiles / handed to getBestFile
    given,          \* the DetectedFile[] as it was when getBestFile was called
    ecosystem,      \* the ecosystem argument (getBestFile's hint, parseFile's ecosystem)
    bestFile,       \* what getBestFile returned
    target,         \* the explicit path of detectFile / parseFile: name, existence, content
    outcome,        \* what the operation called last did: a result or the error raised
    pc,             \* position of the caller
    unlistable,     \* the directories fs.readdir fails on (no permission to list them)
    structure,      \* the ProjectStructure detectFiles computed last
    input,          \* the string handed to parseContent / cleanVersion
    env,            \* process.env and the .vulnifyrc files of the project and home directories
    configManager,  \* the config singleton: its field config
    mongoApiClient, \* the mongoApiClient singleton: its client and its fallbackClient
    requests,       \* the HTTP requests sent so far, in order
    options,        \* the options the test command was run with
    parsedDeps,     \* what parser.parseFile returned to the test command
    exitCode        \* the argument of process.exit, once the command has exited

\* The state of the command line program around the detector and the parser.
cliVars == <<env, configManager, mongoApiClient, requests, options, parsedDeps, exitCode>>

vars == <<disk, maxDepth, detectedFiles, given, ecosystem, bestFile, target, outcome, pc,
          unlistable, structure, input, cliVars>>

----------------------------------------------------------------------------
(* Bounds of the model *)

\* Deepest directory level of the file trees explored.
MaxLevels == 2

\* Largest number of files on disk.
MaxFiles == 2

\* Largest maxDepth handed to the constructor.
MaxDepthBound == 2

\* Longest candidate list handed to getBestFile directly.
MaxCandidates == 3

\* Longest file content, in lines.
MaxLines == 2

\* Largest number of directories that cannot be listed.
MaxUnlistable == 1

\* The longest version string cleanVersion is applied to on its own.
MaxVersionLen == 4

\* The most parts (lines, elements, members) a manifest is written with.
MaxParts == 2

----------------------------------------------------------------------------
(* Generic helpers *)

Null == [null |-> TRUE]

\* An absent argument (a JavaScript undefined) among strings.
Undefined == "(undefined)"

\* The detector or the parser used on its own: no command is running.
NoCommand ==
    /\ env = Null
    /\ configManager = Null
    /\ mongoApiClient = Null
    /\ requests = <<>>
    /\ options = Null
    /\ parsedDeps = Null
    /\ exitCode = Null

Max(a, b) == IF a >= b THEN a ELSE b

Abs(a) == IF a < 0 THEN 0 - a ELSE a

Range(s) == {s[i] : i \in DOMAIN s}

RECURSIVE Flatten(_)
Flatten(ss) == IF ss = <<>> THEN <<>> ELSE Head(ss) \o Flatten(Tail(ss))

\* Array.prototype.includes
Includes(s, x) == \E i \in DOMAIN s : s[i] = x

\* Array.prototype.indexOf, 0-based, -1 when absent
IndexOf(s, x) ==
    IF Includes(s, x) THEN (CHOOSE i \in DOMAIN s : s[i] = x /\ \A j \in 1..(i-1) : s[j] # x) - 1
    ELSE -1

IsPrefix(p, s) == Len(p) <= Len(s) /\ SubSeq(s, 1, Len(p)) = p

\* All sequences without repetition, of length at most n, over the set S.
RECURSIVE DistinctSeqs(_, _)
DistinctSeqs(S, n) ==
    IF n = 0 THEN {<<>>}
    ELSE LET shorter == DistinctSeqs(S, n - 1)
         IN  shorter \cup UNION {{Append(s, x) : x \in S \ Range(s)} : s \in shorter}

\* All subsets of S with at most n elements.
RECURSIVE SubsetsUpTo(_, _)
SubsetsUpTo(S, n) ==
    IF n = 0 THEN {{}}
    ELSE LET smaller == SubsetsUpTo(S, n - 1)
         IN  smaller \cup {T \cup {x} : T \in smaller, x \in S}

----------------------------------------------------------------------------
(* path module *)

\* path.join(dirPath, fileName): fileName may itself hold a separator
PathJoin(dirPath, segments) == dirPath \o segments

\* path.dirname
DirName(path) == SubSeq(path, 1, Len(path) - 1)

\* path.basename
BaseName(path) == path[Len(path)]

\* path.extname on the file names of the model: the text from the last '.'
\* of the base name, empty when there is none or when it is the first character.
ExtName(fileName) ==
    CASE fileName \in {"package.json", "package-lock.json", "packages.lock.json", "composer.json"} -> ".json"
      [] fileName \in {"app.csproj"} -> ".csproj"
      [] fileName \in {"lib.fsproj"} -> ".fsproj"
      [] fileName \in {"old.vbproj"} -> ".vbproj"
      [] fileName \in {"app.sln"} -> ".sln"
      [] fileName \in {"requirements.txt", "notes.txt"} -> ".txt"
      [] fileName \in {"config.toml", "pyproject.toml", "Cargo.toml"} -> ".toml"
      [] fileName \in {"Pipfile.lock", "poetry.lock", "yarn.lock", "Gemfile.lock", "composer.lock", "Cargo.lock"} -> ".lock"
      [] fileName \in {"pom.xml"} -> ".xml"
      [] fileName \in {"packages.config", "nuget.config"} -> ".config"
      [] fileName \in {"pip.conf", ".pip.conf"} -> ".conf"
      [] fileName \in {"build.gradle", "settings.gradle"} -> ".gradle"
      [] fileName = "pnpm-lock.yaml" -> ".yaml"
      [] fileName = "setup.py" -> ".py"
      [] fileName = "build.gradle.kts" -> ".kts"
      [] fileName = "gradle.lockfile" -> ".lockfile"
      [] fileName = "gradle.properties" -> ".properties"
      [] fileName = "go.mod" -> ".mod"
      [] fileName = "go.sum" -> ".sum"
      [] fileName \in {"Pipfile", "Gemfile", ".npmrc", ".gemrc", ".csproj", "a", "b", "node_modules", ".cargo"} -> ""

\* a.path.split(path.sep).length
SplitLength(path) == Len(path)

\* this.projectPath = path.resolve(projectPath): "/proj" splits into "" and "proj"
ProjectPath == <<"", "proj">>

----------------------------------------------------------------------------
(* The registry *)

\* ECOSYSTEM_CONFIGS: each file name is the sequence of its path segments
\* ('.cargo/config.toml' holds a separator).
ECOSYSTEM_CONFIGS == <<
    [name |-> "npm",
     primary |-> << <<"package.json">> >>,
     lockfiles |-> << <<"package-lock.json">>, <<"yarn.lock">>, <<"pnpm-lock.yaml">> >>,
     config |-> << <<".npmrc">> >>],
    [name |-> "pypi",
     primary |-> << <<"requirements.txt">>, <<"Pipfile">>, <<"pyproject.toml">>, <<"setup.py">> >>,
     lockfiles |-> << <<"Pipfile.lock">>, <<"poetry.lock">> >>,
     config |-> << <<"pip.conf">>, <<".pip.conf">> >>],
    [name |-> "maven",
     primary |-> << <<"pom.xml">>, <<"build.gradle">>, <<"build.gradle.kts">> >>,
     lockfiles |-> << <<"gradle.lockfile">> >>,
     config |-> << <<"gradle.properties">>, <<"settings.gradle">> >>],
    [name |-> "nuget",
     primary |-> << <<"packages.config">> >>,
     lockfiles |-> << <<"packages.lock.json">> >>,
     config |-> << <<"nuget.config">> >>],
    [name |-> "rubygems",
     primary |-> << <<"Gemfile">> >>,
     lockfiles |-> << <<"Gemfile.lock">> >>,
     config |-> << <<".gemrc">> >>],
    [name |-> "composer",
     primary |-> << <<"composer.json">> >>,
     lockfiles |-> << <<"composer.lock">> >>,
     config |-> << >>],
    [name |-> "go",
     primary |-> << <<"go.mod">> >>,
     lockfiles |-> << <<"go.sum">> >>,
     config |-> << >>],
    [name |-> "cargo",
     primary |-> << <<"Cargo.toml">> >>,
     lockfiles |-> << <<"Cargo.lock">> >>,
     config |-> << <<".cargo", "config.toml">> >>] >>

IGNORE_DIRECTORIES == <<"node_modules", ".git", ".svn", ".hg", "dist", "build", "target",
    "bin", "obj", "__pycache__", ".pytest_cache", "venv", "env", ".env", ".vscode", ".idea",
    "coverage", ".nyc_output", "logs", "tmp", "temp">>

\* The extensions scanForDotNetFiles collects.
DotNetExtensions == <<".csproj", ".fsproj", ".vbproj", ".sln">>

\* The order of getBestFile's and prioritizeFiles' last tie-break.
ecosystemPriority == <<"npm", "pypi", "maven", "nuget", "rubygems", "composer", "go", "cargo">>

----------------------------------------------------------------------------
(* Confidence arithmetic: IEEE-754 doubles, in the encoding of the header *)

PrimaryBase == 900
LockfileBase == 700
ConfigBase == 300
PrimaryFloor == 500
LockfileFloor == 300
ConfigFloor == 100
PrimaryDecay == 200
LockfileDecay == 200
ConfigDecay == 100
DotNetProjectConfidence == 900
SolutionConfidence == 800
BestFileTolerance == 100
PrioritizeTolerance == 50

\* a - b in doubles, for the subtractions of scanDirectory.  The subtractions
\* listed round to the double just below the nearest double of the decimal
\* result (0.7 - 0.2 is 0.49999999999999994, 0.3 - 0.1 is 0.19999999999999998,
\* 0.7 - 0.4 and 0.9 - 0.6000000000000001 are 0.29999999999999993,
\* 0.3 - 0.2 and 0.9 - 0.8 are 0.09999999999999998); the others of depth 1 and 2
\* are exact, and from depth 3 on every difference lies below every floor by more
\* than a rounding step.
DoubleMinus(a, b) ==
    IF <<a, b>> \in {<<700, 200>>, <<300, 100>>, <<700, 400>>, <<900, 600>>, <<300, 200>>, <<900, 800>>}
    THEN a - b - 1
    ELSE a - b

\* depth * decay in doubles: the rounding of the product (3 * 0.2 is
\* 0.6000000000000001) is accounted for in DoubleMinus.
DoubleTimes(depth, decay) == depth * decay

\* Math.abs(a - b) > tolerance in doubles.  The decimal difference decides,
\* except when it equals the tolerance: 0.9 - 0.8 is 0.09999999999999998 and
\* 0.3 - 0.19999999999999998, 0.19999999999999998 - 0.1 are exactly 0.1 (not
\* greater than 0.1), while 0.8 - 0.7 is 0.10000000000000009 (greater).
DoubleFartherThan(a, b, tolerance) ==
    LET hundredths(x) == (x + 5) \div 10
        diff == 10 * Abs(hundredths(a) - hundredths(b))
    IN  IF diff = tolerance
        THEN <<Max(a, b), Max(a, b) - Abs(a - b)>> \in {<<800, 700>>}
        ELSE diff > tolerance

----------------------------------------------------------------------------
(* The file system, as fs-extra shows it.  fs is the set of the absolute   *)
(* paths of the files; a directory exists when a file lies below it.       *)

\* fs.pathExists
\* A file system: its files, and the directories that cannot be listed.
OnDisk(files) == [files |-> files, unlistable |-> {}]

PathExists(fs, path) == \E f \in fs.files : IsPrefix(path, f)

IsFile(fs, path) == path \in fs.files

IsDirectory(fs, path) == \E f \in fs.files : IsPrefix(path, f) /\ Len(f) > Len(path)

\* The names a directory listing can hold, in byte order.
EntryNames == <<".cargo", ".npmrc", "a", "app.csproj", "app.sln", "b", "config.toml",
    "node_modules", "notes.txt", "package-lock.json", "package.json", "requirements.txt">>

\* fs.readdir returns the entries in the order the file system keeps them:
\* ascending and descending name order stand for the orders it can produce.
ReaddirOrders == {EntryNames, [i \in DOMAIN EntryNames |-> EntryNames[Len(EntryNames) + 1 - i]]}

\* fs.readdir rejects: the directory cannot be listed (EACCES), or there is
\* no such directory (ENOENT, ENOTDIR).  "none" when it resolves.
ReadDirError(fs, dirPath) ==
    IF dirPath \in fs.unlistable THEN "EACCES"
    ELSE IF ~IsDirectory(fs, dirPath) THEN "ENOENT"
    ELSE "none"

\* fs.readdir(dirPath, { withFileTypes: true }): the entry names, in the order given.
ReadDir(fs, dirPath, order) ==
    SelectSeq(order, LAMBDA name : PathExists(fs, PathJoin(dirPath, <<name>>)))

----------------------------------------------------------------------------
(* DependencyDetector *)

DetectedFile(path, eco, confidence, type) ==
    [path |-> path, ecosystem |-> eco, confidence |-> confidence, type |-> type]

\* The confidence expressions with the floor left out: base - depth * decay.
ScanConfidenceWithoutFloor(base, decay, floor, depth) ==
    IF depth = 0 THEN base ELSE DoubleMinus(base, DoubleTimes(depth, decay))

\* The confidence expressions with Math.min in the place of Math.max.
ScanConfidenceFloorAsCeiling(base, decay, floor, depth) ==
    IF depth = 0 THEN base
    ELSE IF floor <= DoubleMinus(base, DoubleTimes(depth, decay)) THEN floor
    ELSE DoubleMinus(base, DoubleTimes(depth, decay))

\* The confidence expressions of scanDirectory:
\* depth === 0 ? base : Math.max(floor, base - (depth * decay))
ScanConfidence(base, decay, floor, depth) ==
    IF depth = 0 THEN base ELSE Max(floor, DoubleMinus(base, DoubleTimes(depth, decay)))

\* One inner loop of scanDirectory: the names of one list that exist in dirPath.
ScanList(fs, dirPath, eco, fileNames, confidence, type) ==
    LET found == SelectSeq(fileNames, LAMBDA fileName : PathExists(fs, PathJoin(dirPath, fileName)))
    IN  [i \in DOMAIN found |-> DetectedFile(PathJoin(dirPath, found[i]), eco, confidence, type)]

\* scanDirectory: what it pushes, in order.
ScanDirectory(fs, dirPath, depth) ==
    Flatten([c \in DOMAIN ECOSYSTEM_CONFIGS |->
        LET config == ECOSYSTEM_CONFIGS[c]
        IN  ScanList(fs, dirPath, config.name, config.primary,
                     ScanConfidence(PrimaryBase, PrimaryDecay, PrimaryFloor, depth), "primary")
            \o ScanList(fs, dirPath, config.name, config.lockfiles,
                        ScanConfidence(LockfileBase, LockfileDecay, LockfileFloor, depth), "lockfile")
            \o ScanList(fs, dirPath, config.name, config.config,
                        ScanConfidence(ConfigBase, ConfigDecay, ConfigFloor, depth), "config")])

\* What an operation did: the error it threw ("none" when it returned) and
\* the value it returned.
Returned(op, value) == [op |-> op, error |-> "none", value |-> value]

Threw(op, error) == [op |-> op, error |-> error, value |-> Null]

\* What a scan did: the files it pushed, in order, and the error it threw
\* ("none" when it returned).
Pushed(files) == [pushed |-> files, error |-> "none"]

\* A statement after another: the second runs when the first did not throw.
Then(first, second) ==
    IF first.error # "none" THEN first
    ELSE [pushed |-> first.pushed \o second.pushed, error |-> second.error]

\* try { ... } catch (error) { logger.debug(...) } with nothing caught.
CatchNothing(body) == body

\* try { ... } catch (error) { logger.debug(...) }: what the body pushed
\* stays pushed, the error is logged and goes no further.
Catch(body) == [pushed |-> body.pushed, error |-> "none"]

\* scanDirectoryRecursive.  ScanEntries is its loop over the entries still to
\* visit.
RECURSIVE ScanDirectoryRecursive(_, _, _, _, _)
RECURSIVE ScanEntries(_, _, _, _, _, _)
ScanDirectoryRecursive(fs, depthLimit, dirPath, currentDepth, order) ==
    IF currentDepth > depthLimit THEN Pushed(<<>>)
    ELSE Catch(IF ReadDirError(fs, dirPath) # "none"
               THEN [pushed |-> <<>>, error |-> ReadDirError(fs, dirPath)]
               ELSE ScanEntries(fs, depthLimit, dirPath, ReadDir(fs, dirPath, order), currentDepth, order))

ScanEntries(fs, depthLimit, dirPath, entries, currentDepth, order) ==
    IF entries = <<>> THEN Pushed(<<>>)
    ELSE LET entry == Head(entries)
             subDirPath == PathJoin(dirPath, <<entry>>)
             visited == IF IsDirectory(fs, subDirPath) /\ ~Includes(IGNORE_DIRECTORIES, entry)
                        THEN Then(Pushed(ScanDirectory(fs, subDirPath, currentDepth)),
                                  ScanDirectoryRecursive(fs, depthLimit, subDirPath, currentDepth + 1, order))
                        ELSE Pushed(<<>>)
         IN  IF visited.error # "none" THEN visited
             ELSE Then(visited, ScanEntries(fs, depthLimit, dirPath, Tail(entries), currentDepth, order))

\* scanForDotNetFiles.  ScanDotNetEntries is its loop.
RECURSIVE ScanForDotNetFiles(_, _, _, _, _)
RECURSIVE ScanDotNetEntries(_, _, _, _, _, _)
ScanForDotNetFiles(fs, depthLimit, dirPath, depth, order) ==
    IF depth > depthLimit THEN Pushed(<<>>)
    ELSE Catch(IF ReadDirError(fs, dirPath) # "none"
               THEN [pushed |-> <<>>, error |-> ReadDirError(fs, dirPath)]
               ELSE ScanDotNetEntries(fs, depthLimit, dirPath, ReadDir(fs, dirPath, order), depth, order))

ScanDotNetEntries(fs, depthLimit, dirPath, entries, depth, order) ==
    IF entries = <<>> THEN Pushed(<<>>)
    ELSE LET entry == Head(entries)
             filePath == PathJoin(dirPath, <<entry>>)
             ext == ExtName(entry)
             visited == IF IsFile(fs, filePath)
                        THEN IF Includes(DotNetExtensions, ext)
                             THEN Pushed(<<DetectedFile(filePath, "nuget",
                                      IF ext = ".sln" THEN SolutionConfidence ELSE DotNetProjectConfidence,
                                      "primary")>>)
                             ELSE Pushed(<<>>)
                        ELSE IF IsDirectory(fs, filePath) /\ ~Includes(IGNORE_DIRECTORIES, entry)
                             THEN ScanForDotNetFiles(fs, depthLimit, filePath, depth + 1, order)
                             ELSE Pushed(<<>>)
         IN  IF visited.error # "none" THEN visited
             ELSE Then(visited, ScanDotNetEntries(fs, depthLimit, dirPath, Tail(entries), depth, order))

\* detectDotNetProjects
DetectDotNetProjects(fs, depthLimit, order) ==
    Catch(ScanForDotNetFiles(fs, depthLimit, ProjectPath, 0, order))

\* The comparison function of getBestFile (tolerance 0.1) and of
\* prioritizeFiles (tolerance 0.05): negative when a sorts before b.
PriorityIndex(eco) ==
    LET index == IndexOf(ecosystemPriority, eco)
    IN  IF index = -1 THEN 999 ELSE index

\* The comparison function without its first rule (primary files first).
CompareFilesWithoutTypeRule(a, b, tolerance) ==
    IF DoubleFartherThan(a.confidence, b.confidence, tolerance)
    THEN b.confidence - a.confidence
    ELSE IF SplitLength(a.path) # SplitLength(b.path)
         THEN SplitLength(a.path) - SplitLength(b.path)
    ELSE PriorityIndex(a.ecosystem) - PriorityIndex(b.ecosystem)

CompareFiles(a, b, tolerance) ==
    IF a.type = "primary" /\ b.type # "primary" THEN -1
    ELSE IF b.type = "primary" /\ a.type # "primary" THEN 1
    ELSE IF DoubleFartherThan(a.confidence, b.confidence, tolerance)
         THEN b.confidence - a.confidence
    ELSE IF SplitLength(a.path) # SplitLength(b.path)
         THEN SplitLength(a.path) - SplitLength(b.path)
    ELSE PriorityIndex(a.ecosystem) - PriorityIndex(b.ecosystem)

\* Array.prototype.sort with that comparison, as Node's engine runs it on an
\* array shorter than 64: the run the array starts with is counted (and
\* reversed when strictly descending), then every later element is put in
\* place by binary insertion.
RECURSIVE ExtendRun(_, _, _, _)
ExtendRun(arr, idx, descending, tolerance) ==
    IF idx > Len(arr) THEN idx - 1
    ELSE LET order == CompareFiles(arr[idx], arr[idx - 1], tolerance)
         IN  IF (descending /\ order >= 0) \/ (~descending /\ order < 0)
             THEN idx - 1
             ELSE ExtendRun(arr, idx + 1, descending, tolerance)

Reverse(s) == [i \in DOMAIN s |-> s[Len(s) + 1 - i]]

RECURSIVE BinarySearch(_, _, _, _, _)
BinarySearch(arr, pivot, left, right, tolerance) ==
    IF left >= right THEN left
    ELSE LET mid == left + ((right - left) \div 2)
         IN  IF CompareFiles(pivot, arr[mid + 1], tolerance) < 0
             THEN BinarySearch(arr, pivot, left, mid, tolerance)
             ELSE BinarySearch(arr, pivot, mid + 1, right, tolerance)

RECURSIVE BinaryInsertionSort(_, _, _)
BinaryInsertionSort(arr, start, tolerance) ==
    IF start >= Len(arr) THEN arr
    ELSE LET pivot == arr[start + 1]
             left == BinarySearch(arr, pivot, 0, start, tolerance)
             placed == SubSeq(arr, 1, left) \o <<pivot>> \o SubSeq(arr, left + 1, start)
                       \o SubSeq(arr, start + 2, Len(arr))
         IN  BinaryInsertionSort(placed, start + 1, tolerance)

ArraySort(arr, tolerance) ==
    IF Len(arr) < 2 THEN arr
    ELSE LET descending == CompareFiles(arr[2], arr[1], tolerance) < 0
             run == ExtendRun(arr, 3, descending, tolerance)
             made == IF descending
                     THEN Reverse(SubSeq(arr, 1, run)) \o SubSeq(arr, run + 1, Len(arr))
                     ELSE arr
         IN  BinaryInsertionSort(made, run, tolerance)

\* prioritizeFiles
PrioritizeFiles(files) == ArraySort(files, PrioritizeTolerance)

\* The keys of the Map filesByDir, in insertion order: the directories of
\* the files, each where it occurs first.
RECURSIVE DirectoriesOf(_)
DirectoriesOf(files) ==
    IF files = <<>> THEN <<>>
    ELSE LET earlier == DirectoriesOf(SubSeq(files, 1, Len(files) - 1))
             dir == DirName(files[Len(files)].path)
         IN  IF Includes(earlier, dir) THEN earlier ELSE Append(earlier, dir)

\* Array.prototype.find(f => f.type === 'primary') on an array that has one.
FindPrimary(files) ==
    files[CHOOSE i \in DOMAIN files :
            files[i].type = "primary" /\ \A j \in 1..(i - 1) : files[j].type # "primary"]

\* dirsWithPrimary.length > 0 in the place of dirsWithPrimary.length > 1.
IsMonorepoFromOneDirectory(dirsWithPrimary) == Len(dirsWithPrimary) > 0

\* dirsWithPrimary.length > 1
IsMonorepo(dirsWithPrimary) == Len(dirsWithPrimary) > 1

\* detectProjectStructure(detectedFiles)
DetectProjectStructure(files) ==
    LET dirs == DirectoriesOf(files)
        filesByDir == [d \in DOMAIN dirs |->
                          [dir |-> dirs[d],
                           files |-> SelectSeq(files, LAMBDA f : DirName(f.path) = dirs[d])]]
        dirsWithPrimary == SelectSeq(filesByDir,
                               LAMBDA e : \E i \in DOMAIN e.files : e.files[i].type = "primary")
        rootFiles == SelectSeq(files, LAMBDA f : DirName(f.path) = ProjectPath)
    IN  [isMonorepo |-> IsMonorepo(dirsWithPrimary),
         rootEcosystem |-> IF \E i \in DOMAIN rootFiles : rootFiles[i].type = "primary"
                           THEN FindPrimary(rootFiles).ecosystem ELSE Null,
         subprojects |-> IF IsMonorepo(dirsWithPrimary)
                         THEN [d \in DOMAIN dirsWithPrimary |->
                                  [path |-> dirsWithPrimary[d].dir,
                                   ecosystem |-> FindPrimary(dirsWithPrimary[d].files).ecosystem,
                                   files |-> Len(dirsWithPrimary[d].files)]]
                         ELSE <<>>,
         totalFiles |-> Len(files)]

\* detectFiles up to the call of prioritizeFiles: the array detectedFiles it
\* has filled, and the error thrown if one was.
CollectFiles(fs, depthLimit, order) ==
    LET atRoot == ScanDirectory(fs, ProjectPath, 0)
    IN  Then(Then(Pushed(atRoot),
                  IF Len(atRoot) = 0
                  THEN ScanDirectoryRecursive(fs, depthLimit, ProjectPath, 1, order)
                  ELSE Pushed(<<>>)),
             DetectDotNetProjects(fs, depthLimit, order))

\* detectFiles: the array it returns, for one order of the directory listings.
DetectFiles(fs, depthLimit, order) ==
    PrioritizeFiles(CollectFiles(fs, depthLimit, order).pushed)

\* detectFiles: what it did.
DetectFilesOutcome(fs, depthLimit, order) ==
    IF CollectFiles(fs, depthLimit, order).error # "none"
    THEN Threw("detectFiles", CollectFiles(fs, depthLimit, order).error)
    ELSE Returned("detectFiles", DetectFiles(fs, depthLimit, order))

\* getBestFile without the filter on the ecosystem asked for.
CandidatesUnfiltered(files, eco) == files

\* getBestFile: the candidates it sorts.
Candidates(files, eco) ==
    LET filtered == IF eco # Undefined /\ eco # ""
                    THEN SelectSeq(files, LAMBDA f : f.ecosystem = eco)
                    ELSE files
    IN  IF Len(filtered) = 0 THEN files ELSE filtered

\* getBestFile: what it returns.
GetBestFile(files, eco) ==
    IF Len(files) = 0 THEN Null
    ELSE ArraySort(Candidates(files, eco), BestFileTolerance)[1]

\* getBestFile sorts in place: the caller's array is sorted when no filter
\* applied (candidates is then the array itself), untouched otherwise.
ArrayAfterGetBestFile(files, eco) ==
    IF Len(files) = 0 THEN files
    ELSE IF eco # Undefined /\ eco # "" /\ \E i \in DOMAIN files : files[i].ecosystem = eco
         THEN files
         ELSE ArraySort(files, BestFileTolerance)

----------------------------------------------------------------------------
(* File contents.  A content is the sequence of its lines (the text is the  *)
(* lines joined by "\n"); the lines are those of ContentLines.              *)

ContentLines == {
    "{\"dependencies\":{\"lodash\":\"^4.17.21\"}}",
    "{\"require\":{\"php\":\">=7.4\",\"monolog/monolog\":\"^2.0\"}}",
    "requests>=2.0.0",
    "<groupId>org.x</groupId>",
    "<PackageReference Include=\"A\" Version=\"1.0\" />",
    "gem 'rails', '~> 7.0'",
    "require github.com/pkg/errors v0.9.1",
    "[dependencies]",
    "serde = \"1.0\"" }

\* The patterns of detectByContent, tested on one line: the ecosystems whose
\* regular expression finds a match inside the line.
\*   npm       /"dependencies":|"devDependencies":|"scripts":|"name":\s*"[^"]+"|"version":\s*"[^"]+"/
\*   pypi      /^[a-zA-Z0-9\-_.]+[>=<~!]=|^-r\s+|^--requirement\s+|^pip\s+install/
\*   maven     /<dependencies>|<groupId>|<artifactId>|<version>.*<\/version>|<project.*xmlns/
\*   nuget     /<PackageReference|<package\s+id=|<Project\s+Sdk=/
\*   rubygems  /gem\s+['"][a-zA-Z0-9\-_.]+['"]|source\s+['"]https:\/\/rubygems\.org['"]/
\*   composer  /"require":|"require-dev":|"autoload":|"psr-4":/
\*   go        /module\s+[a-zA-Z0-9\-_.\/]+|require\s+[a-zA-Z0-9\-_.\/]+|go\s+\d+\.\d+/
\*   cargo     /\[dependencies\]|\[dev-dependencies\]|\[package\]|name\s*=\s*"[^"]+"/
LineMatches(line) ==
    CASE line = "{\"dependencies\":{\"lodash\":\"^4.17.21\"}}" -> {"npm"}
      [] line = "{\"require\":{\"php\":\">=7.4\",\"monolog/monolog\":\"^2.0\"}}" -> {"composer"}
      [] line = "requests>=2.0.0" -> {"pypi"}
      [] line = "<groupId>org.x</groupId>" -> {"maven"}
      [] line = "<PackageReference Include=\"A\" Version=\"1.0\" />" -> {"nuget"}
      [] line = "gem 'rails', '~> 7.0'" -> {"rubygems"}
      [] line = "require github.com/pkg/errors v0.9.1" -> {"go"}
      [] line = "[dependencies]" -> {"cargo"}
      [] line = "serde = \"1.0\"" -> {}

\* pattern.test(content).  The pypi pattern is anchored with ^ and has no
\* multiline flag: it matches at the start of the text only, that is in the
\* first line.  No pattern matches across a line break of these lines.
PatternTest(eco, content) ==
    IF eco = "pypi"
    THEN Len(content) > 0 /\ "pypi" \in LineMatches(content[1])
    ELSE \E i \in DOMAIN content : eco \in LineMatches(content[i])

\* The patterns array of detectByContent, in its order.
ContentPatterns == <<
    [ecosystem |-> "npm", confidence |-> 800],
    [ecosystem |-> "pypi", confidence |-> 700],
    [ecosystem |-> "maven", confidence |-> 800],
    [ecosystem |-> "nuget", confidence |-> 800],
    [ecosystem |-> "rubygems", confidence |-> 700],
    [ecosystem |-> "composer", confidence |-> 800],
    [ecosystem |-> "go", confidence |-> 800],
    [ecosystem |-> "cargo", confidence |-> 800] >>

\* detectByContent with the last pattern that matches deciding.
DetectByContentLastMatch(filePath, file) ==
    IF ~file.readable THEN Null
    ELSE LET matching == {i \in DOMAIN ContentPatterns : PatternTest(ContentPatterns[i].ecosystem, file.content)}
         IN  IF matching = {} THEN Null
             ELSE LET last == CHOOSE i \in matching : \A j \in matching : i >= j
                  IN  DetectedFile(filePath, ContentPatterns[last].ecosystem,
                                   ContentPatterns[last].confidence, "primary")

\* detectByContent: the first pattern that matches decides; a file that
\* cannot be read makes fs.readFile throw, which is caught, and null returned.
DetectByContent(filePath, file) ==
    IF ~file.readable THEN Null
    ELSE LET matching == {i \in DOMAIN ContentPatterns : PatternTest(ContentPatterns[i].ecosystem, file.content)}
         IN  IF matching = {} THEN Null
             ELSE LET first == CHOOSE i \in matching : \A j \in matching : i <= j
                  IN  DetectedFile(filePath, ContentPatterns[first].ecosystem,
                                   ContentPatterns[first].confidence, "primary")

\* The loop of detectFile over ECOSYSTEM_CONFIGS: the entries whose lists
\* include the file name, first config first, primary before lockfiles
\* before config.
KnownPatternMatches(absolutePath, fileName) ==
    Flatten([c \in DOMAIN ECOSYSTEM_CONFIGS |->
        LET config == ECOSYSTEM_CONFIGS[c]
        IN  (IF Includes(config.primary, <<fileName>>)
             THEN <<DetectedFile(absolutePath, config.name, PrimaryBase, "primary")>> ELSE <<>>)
            \o (IF Includes(config.lockfiles, <<fileName>>)
                THEN <<DetectedFile(absolutePath, config.name, LockfileBase, "lockfile")>> ELSE <<>>)
            \o (IF Includes(config.config, <<fileName>>)
                THEN <<DetectedFile(absolutePath, config.name, ConfigBase, "config")>> ELSE <<>>)])

\* detectFile sniffing the content before it looks at the name.
DetectFileContentFirst(file) ==
    LET absolutePath == PathJoin(ProjectPath, <<file.name>>)
        fileName == BaseName(absolutePath)
        fileExt == ExtName(fileName)
        known == KnownPatternMatches(absolutePath, fileName)
    IN  IF ~file.exists THEN Threw("detectFile", "FileNotFound")
        ELSE IF DetectByContent(absolutePath, file) # Null
             THEN Returned("detectFile", DetectByContent(absolutePath, file))
        ELSE IF Len(known) > 0 THEN Returned("detectFile", known[1])
        ELSE IF fileExt = ".csproj" \/ fileExt = ".fsproj" \/ fileExt = ".vbproj"
             THEN Returned("detectFile", DetectedFile(absolutePath, "nuget", DotNetProjectConfidence, "primary"))
        ELSE Returned("detectFile", Null)

\* detectFile(filePath), for the file named file.name in the project directory
DetectFile(file) ==
    LET absolutePath == PathJoin(ProjectPath, <<file.name>>)
        fileName == BaseName(absolutePath)
        fileExt == ExtName(fileName)
        known == KnownPatternMatches(absolutePath, fileName)
    IN  IF ~file.exists THEN Threw("detectFile", "FileNotFound")
        ELSE IF Len(known) > 0 THEN Returned("detectFile", known[1])
        ELSE IF fileExt = ".csproj" \/ fileExt = ".fsproj" \/ fileExt = ".vbproj"
             THEN Returned("detectFile", DetectedFile(absolutePath, "nuget", DotNetProjectConfidence, "primary"))
        ELSE Returned("detectFile", DetectByContent(absolutePath, file))

\* JSON.parse(content) returns: of the lines of ContentLines, the two JSON
\* objects are well-formed texts, alone.
JsonParses(content) == Len(content) = 1 /\ content[1] \in
    {"{\"dependencies\":{\"lodash\":\"^4.17.21\"}}",
     "{\"require\":{\"php\":\">=7.4\",\"monolog/monolog\":\"^2.0\"}}"}

\* parseContent(content, ecosystem): the error it throws, "none" when it returns.
ParseContentError(content, eco) ==
    IF eco \in {"npm", "composer"}
    THEN IF JsonParses(content) THEN "none" ELSE "ManifestParseError"
    ELSE IF eco \in {"pypi", "maven", "nuget", "rubygems", "go", "cargo"} THEN "none"
    ELSE "UnsupportedEcosystem"

\* parseFile rejecting an unsupported ecosystem before it looks for the file.
ParseFileEcosystemFirst(file, eco) ==
    LET absolutePath == PathJoin(ProjectPath, <<file.name>>)
    IN  IF ParseContentError(<<>>, eco) = "UnsupportedEcosystem"
        THEN Threw("parseFile", "UnsupportedEcosystem")
        ELSE IF ~file.exists THEN Threw("parseFile", "FileNotFound")
        ELSE IF ~file.readable THEN Threw("parseFile", "ReadError")
        ELSE IF ParseContentError(file.content, eco) # "none"
             THEN Threw("parseFile", ParseContentError(file.content, eco))
        ELSE Returned("parseFile", [ecosystem |-> eco, source_file |-> absolutePath])

\* parseFile(filePath, ecosystem), for the file named file.name
ParseFile(file, eco) ==
    LET absolutePath == PathJoin(ProjectPath, <<file.name>>)
    IN  IF ~file.exists THEN Threw("parseFile", "FileNotFound")
        ELSE IF ~file.readable THEN Threw("parseFile", "ReadError")
        ELSE IF ParseContentError(file.content, eco) # "none"
             THEN Threw("parseFile", ParseContentError(file.content, eco))
        ELSE Returned("parseFile", [ecosystem |-> eco, source_file |-> absolutePath])

----------------------------------------------------------------------------
(* The inputs explored *)

RECURSIVE Nested(_, _)
Nested(name, levels) == IF levels = 0 THEN <<>> ELSE <<name>> \o Nested(name, levels - 1)

\* The directories of the file trees, relative to the project root: a chain
\* a, a/a, ... down to MaxLevels, a sibling b and an ignored directory.
TreeDirs == {Nested("a", k) : k \in 0..MaxLevels} \cup {<<"b">>, <<"node_modules">>}

\* The files a directory of the tree can hold.
TreeFileNames == {<<"package.json">>, <<"package-lock.json">>, <<".npmrc">>, <<"requirements.txt">>,
    <<"app.csproj">>, <<"app.sln">>, <<".cargo", "config.toml">>, <<"notes.txt">>}

DiskPaths == {ProjectPath \o d \o n : d \in TreeDirs, n \in TreeFileNames}

\* The ecosystem arguments: none, the empty string, ecosystems with files in
\* the trees, and one without ("go").
Hints == {Undefined, "", "npm", "pypi", "nuget", "go"}

\* The files the lists handed to getBestFile directly are about.
CandidatePaths == {ProjectPath \o d \o n :
    d \in {<<>>, <<"a">>},
    n \in {<<"package.json">>, <<"package-lock.json">>, <<"requirements.txt">>, <<"app.sln">>}}
    \cup {ProjectPath \o <<"b", "package.json">>,
          ProjectPath \o <<"a", "app.csproj">>,
          ProjectPath \o <<"a", ".cargo", "config.toml">>,
          ProjectPath \o <<"a", "a", ".npmrc">>,
          ProjectPath \o <<"a", "a", "package.json">>,
          ProjectPath \o <<"a", "a", "a", "package-lock.json">>}

\* Every DetectedFile the detector produces for some file of CandidatePaths.
CandidateFiles ==
    UNION {Range(DetectFiles(OnDisk({p}), Len(p), EntryNames)) : p \in CandidatePaths}

\* The explicit paths handed to detectFile and parseFile: file names of the
\* registry, .NET project files, and names nothing recognises.
TargetNames == {"package.json", "package-lock.json", ".npmrc", "packages.config",
    "app.csproj", "lib.fsproj", "old.vbproj", "app.sln", "config.toml", "notes.txt"}

\* The contents of at most n lines.
RECURSIVE ContentsUpTo(_)
ContentsUpTo(n) ==
    IF n = 0 THEN {<<>>}
    ELSE ContentsUpTo(n - 1) \cup {Append(c, l) : c \in {d \in ContentsUpTo(n - 1) : Len(d) = n - 1}, l \in ContentLines}

\* A path that does not exist, a file that cannot be read, or a file with a content.
Targets ==
    {[name |-> n, exists |-> FALSE, readable |-> FALSE, content |-> <<>>] : n \in TargetNames}
    \cup {[name |-> n, exists |-> TRUE, readable |-> FALSE, content |-> <<>>] : n \in TargetNames}
    \cup {[name |-> n, exists |-> TRUE, readable |-> TRUE, content |-> c] : n \in TargetNames, c \in ContentsUpTo(MaxLines)}

\* The ecosystem arguments of parseFile: the eight identifiers and one outside them.
ParseEcosystems == {"npm", "pypi", "maven", "nuget", "rubygems", "composer", "go", "cargo", "unknown"}

----------------------------------------------------------------------------
(* Operations *)

\* detector.detectFile(filePath)
DetectFileCall ==
    /\ pc = "explicit"
    /\ outcome' = DetectFile(target)
    /\ pc' = "classified"
    /\ UNCHANGED <<disk, maxDepth, detectedFiles, given, ecosystem, bestFile, target,
                   unlistable, structure, input, cliVars>>

\* The file system the detector works on.
FileSystem == [files |-> disk, unlistable |-> unlistable]

\* parser.parseFile(filePath, ecosystem)
ParseFileCall ==
    /\ pc = "explicit"
    /\ \E eco \in ParseEcosystems :
        /\ ecosystem' = eco
        /\ outcome' = ParseFile(target, eco)
    /\ pc' = "parsed"
    /\ UNCHANGED <<disk, maxDepth, detectedFiles, given, bestFile, target,
                   unlistable, structure, input, cliVars>>

\* detector.detectFiles()
DetectFilesCall ==
    /\ pc = "start"
    /\ \E order \in ReaddirOrders :
        /\ outcome' = DetectFilesOutcome(FileSystem, maxDepth, order)
        /\ structure' = DetectProjectStructure(CollectFiles(FileSystem, maxDepth, order).pushed)
    /\ detectedFiles' = IF outcome'.error = "none" THEN outcome'.value ELSE detectedFiles
    /\ pc' = IF outcome'.error = "none" THEN "detected" ELSE "failed"
    /\ UNCHANGED <<disk, maxDepth, given, ecosystem, bestFile, target, unlistable, input, cliVars>>

\* detector.getBestFile(detectedFiles, ecosystem)
GetBestFileCall ==
    /\ pc = "detected"
    /\ \E eco \in Hints :
        /\ ecosystem' = eco
        /\ bestFile' = GetBestFile(detectedFiles, eco)
        /\ detectedFiles' = ArrayAfterGetBestFile(detectedFiles, eco)
    /\ given' = detectedFiles
    /\ pc' = "chosen"
    /\ UNCHANGED <<disk, maxDepth, target, outcome, unlistable, structure, input, cliVars>>

NoTarget == [name |-> "", exists |-> FALSE, readable |-> FALSE, content |-> <<>>]

\* A project directory and a detector constructed on it.
InitProject ==
    /\ NoCommand
    /\ disk \in SubsetsUpTo(DiskPaths, MaxFiles)
    /\ maxDepth \in 0..MaxDepthBound
    /\ detectedFiles = <<>>
    /\ given = <<>>
    /\ ecosystem = Undefined
    /\ bestFile = Null
    /\ target = NoTarget
    /\ outcome = Null
    /\ unlistable = {}
    /\ structure = Null
    /\ input = Null
    /\ pc = "start"

\* An explicit path handed to the detector and the parser.
InitExplicit ==
    /\ NoCommand
    /\ disk = {}
    /\ maxDepth = MaxDepthBound
    /\ detectedFiles = <<>>
    /\ given = <<>>
    /\ ecosystem = Undefined
    /\ bestFile = Null
    /\ target \in Targets
    /\ outcome = Null
    /\ unlistable = {}
    /\ structure = Null
    /\ input = Null
    /\ pc = "explicit"

Init == InitProject \/ InitExplicit

Next == DetectFilesCall \/ GetBestFileCall \/ DetectFileCall \/ ParseFileCall

Spec == Init /\ [][Next]_vars

\* The detector alone: detectFiles on a project, detectFile on an explicit path.
NextDetect == DetectFilesCall \/ DetectFileCall

SpecDetect == Init /\ [][NextDetect]_vars

\* The operations on an explicit path alone.
NextExplicit == DetectFileCall \/ ParseFileCall

SpecExplicit == InitExplicit /\ [][NextExplicit]_vars

\* getBestFile as a function of its arguments: any list of DetectedFiles.
InitBest ==
    /\ NoCommand
    /\ disk = {}
    /\ maxDepth = MaxDepthBound
    /\ detectedFiles \in DistinctSeqs(CandidateFiles, MaxCandidates)
    /\ given = <<>>
    /\ ecosystem = Undefined
    /\ bestFile = Null
    /\ target = NoTarget
    /\ outcome = Null
    /\ unlistable = {}
    /\ structure = Null
    /\ input = Null
    /\ pc = "detected"

NextBest == GetBestFileCall

SpecBest == InitBest /\ [][NextBest]_vars

\* detectProjectStructure as a function of its argument: any list of DetectedFiles.
DetectProjectStructureCall ==
    /\ pc = "detected"
    /\ structure' = DetectProjectStructure(detectedFiles)
    /\ pc' = "structured"
    /\ UNCHANGED <<disk, maxDepth, detectedFiles, given, ecosystem, bestFile, target, outcome,
                   unlistable, input, cliVars>>

SpecStructure == InitBest /\ [][DetectProjectStructureCall]_vars

\* The files of the projects explored with directories that cannot be listed.
FaultyDiskPaths ==
    {ProjectPath \o d \o n : d \in {Nested("a", k) : k \in 0..MaxLevels} \cup {<<"b">>},
                             n \in {<<"package.json">>, <<"app.csproj">>}}

\* The directories of a set of files, the project directory included.
Directories(files) == UNION {{SubSeq(f, 1, k) : k \in Len(ProjectPath)..(Len(f) - 1)} : f \in files}

\* A project directory, some of its directories not listable (none at all:
\* a project directory that does not exist), and a detector constructed on it.
InitFaulty ==
    /\ NoCommand
    /\ disk \in SubsetsUpTo(FaultyDiskPaths, MaxFiles)
    /\ unlistable \in SubsetsUpTo(Directories(disk), MaxUnlistable)
    /\ maxDepth \in 0..MaxDepthBound
    /\ detectedFiles = <<>>
    /\ given = <<>>
    /\ ecosystem = Undefined
    /\ bestFile = Null
    /\ target = NoTarget
    /\ outcome = Null
    /\ structure = Null
    /\ input = Null
    /\ pc = "start"

SpecFaulty == InitFaulty /\ [][DetectFilesCall]_vars

----------------------------------------------------------------------------
(* Strings and regular expressions *)

\* A string is the sequence of its characters.
Chars(s) == [i \in 1..Len(s) |-> SubSeq(s, i, i)]

CharSet(s) == {SubSeq(s, i, i) : i \in 1..Len(s)}

\* The characters \s matches and trim removes, among those of the manifests here.
WhiteSpace == {" ", "\t", "\n", "\r", "\f"}

\* The characters . does not match.
LineTerminators == {"\n", "\r"}

Digits == CharSet("0123456789")

Letters == CharSet("abcdefghijklmnopqrstuvwxyz") \cup CharSet("ABCDEFGHIJKLMNOPQRSTUVWXYZ")

\* A character class: [chars] or [^chars].
OneOf(chars) == [negated |-> FALSE, chars |-> chars]

NoneOf(chars) == [negated |-> TRUE, chars |-> chars]

InClass(c, class) == (c \in class.chars) # class.negated

\* .  and  [\s\S]
Dot == NoneOf(LineTerminators)

AnyChar == NoneOf({})

\* The items a regular expression is the sequence of: a literal text, one
\* character of a class, a class repeated (min or more times, greedy or lazy,
\* captured as a group or as none: group 0), an optional non-capturing group,
\* and the assertions ^ and $ (without the m flag).
Literal(text) == [kind |-> "literal", text |-> Chars(text)]

One(class) == [kind |-> "one", class |-> class]

Repeat(class, min, greedy, group) ==
    [kind |-> "repeat", class |-> class, min |-> min, greedy |-> greedy, group |-> group]

Optional(items) == [kind |-> "optional", items |-> items]

StartOfInput == [kind |-> "start"]

EndOfInput == [kind |-> "end"]

\* A capturing group that took no part in the match: no string of characters.
NoCapture == <<Undefined>>

NoMatch == [matched |-> FALSE]

\* How many characters of the class follow position i - 1.
RunLength(class, s, i) ==
    LET stops == {k \in i..Len(s) : ~InClass(s[k], class)}
    IN  IF i > Len(s) THEN 0
        ELSE IF stops = {} THEN Len(s) + 1 - i
        ELSE (CHOOSE k \in stops : \A j \in stops : k <= j) - i

\* The backtracking matcher: the items matched at position i, the first way
\* that succeeds in the order the engine tries them (a greedy repetition from
\* the longest run down, a lazy one from the shortest up, an optional group
\* taken before it is skipped).
RECURSIVE MatchHere(_, _, _, _)
MatchHere(items, s, i, groups) ==
    LET item == Head(items)
        rest == Tail(items)
        After(n) == MatchHere(rest, s, i + n,
                              IF item.group = 0 THEN groups
                              ELSE [groups EXCEPT ![item.group] = SubSeq(s, i, i + n - 1)])
        tried == {[n |-> n, after |-> After(n)] : n \in item.min..RunLength(item.class, s, i)}
        matching == {t \in tried : t.after.matched}
        taken == MatchHere(item.items \o rest, s, i, groups)
    IN  IF items = <<>> THEN [matched |-> TRUE, end |-> i, groups |-> groups]
        ELSE CASE item.kind = "start" ->
                    IF i = 1 THEN MatchHere(rest, s, i, groups) ELSE NoMatch
               [] item.kind = "end" ->
                    IF i = Len(s) + 1 THEN MatchHere(rest, s, i, groups) ELSE NoMatch
               [] item.kind = "literal" ->
                    IF /\ i + Len(item.text) - 1 <= Len(s)
                       /\ SubSeq(s, i, i + Len(item.text) - 1) = item.text
                    THEN MatchHere(rest, s, i + Len(item.text), groups)
                    ELSE NoMatch
               [] item.kind = "one" ->
                    IF i <= Len(s) /\ InClass(s[i], item.class)
                    THEN MatchHere(rest, s, i + 1, groups)
                    ELSE NoMatch
               [] item.kind = "repeat" ->
                    IF matching = {} THEN NoMatch
                    ELSE (CHOOSE t \in matching :
                            \A u \in matching : IF item.greedy THEN u.n <= t.n ELSE t.n <= u.n).after
               [] item.kind = "optional" ->
                    IF taken.matched THEN taken ELSE MatchHere(rest, s, i, groups)

\* RegExp.prototype.exec from position `from`, and String.prototype.match
\* without the g flag (from 1): the leftmost match.
Exec(regex, s, from) ==
    LET tried == {[index |-> i, here |-> MatchHere(regex, s, i, <<NoCapture, NoCapture, NoCapture>>)] :
                    i \in from..(Len(s) + 1)}
        matching == {t \in tried : t.here.matched}
        leftmost == CHOOSE t \in matching : \A u \in matching : t.index <= u.index
    IN  IF matching = {} THEN NoMatch
        ELSE [matched |-> TRUE, index |-> leftmost.index, end |-> leftmost.here.end,
              groups |-> leftmost.here.groups]

\* while ((match = regex.exec(content)) !== null) with a g regular
\* expression: every match, each search starting where the last match ended
\* (lastIndex; one further after an empty match).
RECURSIVE ExecAll(_, _, _)
ExecAll(regex, s, from) ==
    LET m == Exec(regex, s, from)
    IN  IF ~m.matched THEN <<>>
        ELSE <<m>> \o ExecAll(regex, s, IF m.end = m.index THEN m.end + 1 ELSE m.end)

\* String.prototype.replace with a regular expression without the g flag.
Replace(s, regex, replacement) ==
    LET m == Exec(regex, s, 1)
    IN  IF ~m.matched THEN s
        ELSE SubSeq(s, 1, m.index - 1) \o replacement \o SubSeq(s, m.end, Len(s))

\* String.prototype.trim.
Trim(s) ==
    LET kept == {i \in 1..Len(s) : s[i] \notin WhiteSpace}
    IN  IF kept = {} THEN <<>>
        ELSE SubSeq(s, CHOOSE i \in kept : \A j \in kept : i <= j,
                       CHOOSE i \in kept : \A j \in kept : j <= i)

\* String.prototype.startsWith.
StartsWith(s, prefix) == Len(prefix) <= Len(s) /\ SubSeq(s, 1, Len(prefix)) = Chars(prefix)

\* String.prototype.toLowerCase.
ToLowerCase(s) ==
    LET upper == "ABCDEFGHIJKLMNOPQRSTUVWXYZ"
        lower == "abcdefghijklmnopqrstuvwxyz"
        LowerChar(c) ==
            IF c \in CharSet(upper)
            THEN LET i == CHOOSE k \in 1..Len(upper) : SubSeq(upper, k, k) = c
                 IN  SubSeq(lower, i, i)
            ELSE c
    IN  [i \in 1..Len(s) |-> LowerChar(s[i])]

\* String.prototype.split('\n').
RECURSIVE SplitLines(_)
SplitLines(s) ==
    IF \A i \in 1..Len(s) : s[i] # "\n" THEN <<s>>
    ELSE LET k == CHOOSE i \in 1..Len(s) : s[i] = "\n" /\ \A j \in 1..(i - 1) : s[j] # "\n"
         IN  <<SubSeq(s, 1, k - 1)>> \o SplitLines(SubSeq(s, k + 1, Len(s)))

----------------------------------------------------------------------------
(* parser.ts: cleanVersion *)

\* DependencyParser.cleanVersion
CleanVersion(version) ==
    LET \* /^[\^~>=<]+/
        leadingOperators == <<StartOfInput, Repeat(OneOf(CharSet("^~>=<")), 1, TRUE, 0)>>
        \* /\s*\|\|.*$/
        orConditions == <<Repeat(OneOf(WhiteSpace), 0, TRUE, 0), Literal("||"),
                          Repeat(Dot, 0, TRUE, 0), EndOfInput>>
    IN  Trim(Replace(Replace(version, leadingOperators, <<>>), orConditions, <<>>))

\* All sequences of length at most n over the set S.
RECURSIVE SeqsUpTo(_, _)
SeqsUpTo(S, n) ==
    IF n = 0 THEN {<<>>}
    ELSE LET shorter == SeqsUpTo(S, n - 1)
         IN  shorter \cup {Append(s, c) : s \in {t \in shorter : Len(t) = n - 1}, c \in S}

\* A version string, and cleanVersion applied to it.  The characters version
\* strings are made of: operator characters (one that cleanVersion names and
\* one it does not), white space, |, a digit and a dot.
InitVersion ==
    /\ NoCommand
    /\ input \in SeqsUpTo({"^", "!", " ", "\n", "|", "1", "."}, MaxVersionLen)
    /\ disk = {}
    /\ unlistable = {}
    /\ maxDepth = 0
    /\ detectedFiles = <<>>
    /\ given = <<>>
    /\ ecosystem = Undefined
    /\ bestFile = Null
    /\ target = NoTarget
    /\ outcome = Null
    /\ structure = Null
    /\ pc = "version"

CleanVersionCall ==
    /\ pc = "version"
    /\ outcome' = Returned("cleanVersion", CleanVersion(input))
    /\ pc' = "cleaned"
    /\ UNCHANGED <<disk, maxDepth, detectedFiles, given, ecosystem, bestFile, target,
                   unlistable, structure, input, cliVars>>

SpecVersion == InitVersion /\ [][CleanVersionCall]_vars

----------------------------------------------------------------------------
(* JSON.parse, and the JavaScript operations on the values it returns *)

\* JSON.parse(text): the value the whole text denotes, or a SyntaxError
\* (ok false).  A value is read at a position and ends before `next`.
JsonParse(text) ==
    LET s == text
        At(i) == IF 1 <= i /\ i <= Len(s) THEN s[i] ELSE ""
        WordAt(i, word) == i + Len(word) - 1 <= Len(s) /\ SubSeq(s, i, i + Len(word) - 1) = Chars(word)
        SkipWs(i) == i + RunLength(OneOf({" ", "\t", "\n", "\r"}), s, i)
        Fail == [ok |-> FALSE]
        Ok(value, next) == [ok |-> TRUE, value |-> value, next |-> next]
        \* The characters of a string literal whose opening quote precedes
        \* position i (escapes \" \\ \/ \n \t \r \f; \b and \u are not among
        \* the inputs).
        RECURSIVE StringBody(_, _)
        StringBody(i, acc) ==
            IF i > Len(s) \/ s[i] \in {"\n", "\t", "\r", "\f"} THEN Fail
            ELSE IF s[i] = "\"" THEN Ok(acc, i + 1)
            ELSE IF s[i] = "\\"
                 THEN IF At(i + 1) \in {"\"", "\\", "/"} THEN StringBody(i + 2, Append(acc, s[i + 1]))
                      ELSE IF At(i + 1) = "n" THEN StringBody(i + 2, Append(acc, "\n"))
                      ELSE IF At(i + 1) = "t" THEN StringBody(i + 2, Append(acc, "\t"))
                      ELSE IF At(i + 1) = "r" THEN StringBody(i + 2, Append(acc, "\r"))
                      ELSE IF At(i + 1) = "f" THEN StringBody(i + 2, Append(acc, "\f"))
                      ELSE Fail
            ELSE StringBody(i + 1, Append(acc, s[i]))
        \* A number literal: -?(0|[1-9][0-9]*)(\.[0-9]+)?([eE][+-]?[0-9]+)?
        \* a is the position of its first digit, int, frac and exp those
        \* after its integer part, its fraction and its exponent.
        Number(i) ==
            LET DigitsAt(k) == RunLength(OneOf(Digits), s, k)
                Exponent(a, frac, sign) ==
                    LET Numeric(exp) ==
                            IF exp = 0 THEN Fail
                            ELSE Ok([type |-> "number",
                                     zero |-> \A k \in a..(frac - 1) : s[k] \in {"0", "."}], exp)
                    IN  Numeric(IF At(frac) \notin {"e", "E"} THEN frac
                                ELSE IF DigitsAt(sign) = 0 THEN 0 ELSE sign + DigitsAt(sign))
                Fraction(a, int) ==
                    LET Rest(frac) ==
                            IF int = a \/ frac = 0 THEN Fail
                            ELSE Exponent(a, frac, IF At(frac + 1) \in {"+", "-"} THEN frac + 2
                                                   ELSE frac + 1)
                    IN  Rest(IF At(int) # "." THEN int
                             ELSE IF DigitsAt(int + 1) = 0 THEN 0 ELSE int + 1 + DigitsAt(int + 1))
                Integer(a) == Fraction(a, IF At(a) = "0" THEN a + 1 ELSE a + DigitsAt(a))
            IN  Integer(IF At(i) = "-" THEN i + 1 ELSE i)
        \* A value at position i; the members of an object after its { or a
        \* comma; the items of an array after its [ or a comma.
        RECURSIVE Value(_)
        RECURSIVE Members(_, _)
        RECURSIVE Items(_, _)
        Value(i) ==
            LET String(str) ==
                    IF str.ok THEN Ok([type |-> "string", chars |-> str.value], str.next) ELSE Fail
            IN  CASE At(i) = "{" -> Members(SkipWs(i + 1), <<>>)
                  [] At(i) = "[" -> Items(SkipWs(i + 1), <<>>)
                  [] At(i) = "\"" -> String(StringBody(i + 1, <<>>))
                  [] WordAt(i, "true") -> Ok([type |-> "true"], i + 4)
                  [] WordAt(i, "false") -> Ok([type |-> "false"], i + 5)
                  [] WordAt(i, "null") -> Ok([type |-> "null"], i + 4)
                  [] OTHER -> Number(i)
        Members(i, acc) ==
            LET Rest(members, after) ==
                    IF At(after) = "," THEN Members(SkipWs(after + 1), members)
                    ELSE IF At(after) = "}" THEN Ok([type |-> "object", members |-> members], after + 1)
                    ELSE Fail
                Member(key, value) ==
                    IF ~value.ok THEN Fail
                    ELSE Rest(Append(acc, [key |-> key.value, value |-> value.value]),
                              SkipWs(value.next))
                Colon(key, colon) ==
                    IF At(colon) # ":" THEN Fail ELSE Member(key, Value(SkipWs(colon + 1)))
                Key(key) == IF ~key.ok THEN Fail ELSE Colon(key, SkipWs(key.next))
            IN  IF acc = <<>> /\ At(i) = "}" THEN Ok([type |-> "object", members |-> <<>>], i + 1)
                ELSE IF At(i) # "\"" THEN Fail
                ELSE Key(StringBody(i + 1, <<>>))
        Items(i, acc) ==
            LET Rest(items, after) ==
                    IF At(after) = "," THEN Items(SkipWs(after + 1), items)
                    ELSE IF At(after) = "]" THEN Ok([type |-> "array", items |-> items], after + 1)
                    ELSE Fail
                Item(value) ==
                    IF ~value.ok THEN Fail
                    ELSE Rest(Append(acc, value.value), SkipWs(value.next))
            IN  IF acc = <<>> /\ At(i) = "]" THEN Ok([type |-> "array", items |-> <<>>], i + 1)
                ELSE Item(Value(i))
        Whole(value) == IF value.ok /\ SkipWs(value.next) = Len(s) + 1 THEN value ELSE Fail
    IN  Whole(Value(SkipWs(1)))

\* value[key] for a key no array, string, number or boolean has: the last
\* member of an object written with that key, or undefined.
GetProperty(value, key) ==
    LET written == IF value.type = "object"
                   THEN {k \in 1..Len(value.members) : value.members[k].key = Chars(key)}
                   ELSE {}
    IN  IF written = {} THEN [type |-> "undefined"]
        ELSE value.members[CHOOSE k \in written : \A j \in written : j <= k].value

\* if (value)
Truthy(value) ==
    CASE value.type \in {"undefined", "null", "false"} -> FALSE
      [] value.type = "number" -> ~value.zero
      [] value.type = "string" -> value.chars # <<>>
      [] OTHER -> TRUE

\* Object.entries(value): for an object its property names, each once (the
\* array indices in ascending numeric order, then the other names in the
\* order they were first written), each with the value written last; for an
\* array or a string its indices; for a number or a boolean nothing.
ObjectEntries(value) ==
    LET m == value.members
        IsArrayIndex(key) ==
            /\ key # <<>>
            /\ Len(key) <= 9
            /\ \A i \in 1..Len(key) : key[i] \in Digits
            /\ key[1] = "0" => Len(key) = 1
        RECURSIVE ToNumber(_)
        ToNumber(key) ==
            IF key = <<>> THEN 0
            ELSE 10 * ToNumber(SubSeq(key, 1, Len(key) - 1))
                 + (CHOOSE d \in 0..9 : ToString(d) = key[Len(key)])
        RECURSIVE Ascending(_)
        Ascending(keys) ==
            IF keys = {} THEN <<>>
            ELSE LET least == CHOOSE k \in keys : \A j \in keys : ToNumber(k) <= ToNumber(j)
                 IN  <<least>> \o Ascending(keys \ {least})
        first == {k \in 1..Len(m) : \A j \in 1..(k - 1) : m[j].key # m[k].key}
        others == SelectSeq([k \in 1..Len(m) |-> [at |-> k, key |-> m[k].key]],
                            LAMBDA e : e.at \in first /\ ~IsArrayIndex(e.key))
        order == Ascending({m[k].key : k \in {j \in first : IsArrayIndex(m[j].key)}})
                 \o [k \in 1..Len(others) |-> others[k].key]
    IN  CASE value.type = "object" ->
                [k \in 1..Len(order) |->
                    [key |-> order[k],
                     value |-> m[CHOOSE j \in 1..Len(m) :
                                    /\ m[j].key = order[k]
                                    /\ \A l \in (j + 1)..Len(m) : m[l].key # order[k]].value]]
          [] value.type = "array" ->
                [k \in 1..Len(value.items) |-> [key |-> Chars(ToString(k - 1)), value |-> value.items[k]]]
          [] value.type = "string" ->
                [k \in 1..Len(value.chars) |->
                    [key |-> Chars(ToString(k - 1)),
                     value |-> [type |-> "string", chars |-> <<value.chars[k]>>]]]
          [] OTHER -> <<>>

----------------------------------------------------------------------------
(* parser.ts: the manifests decoded as JSON *)

Dependency(name, version) == [name |-> name, version |-> version]

\* The loop over a section of the manifest: nothing when the section is
\* absent or falsy, a Dependency for every entry whose name is not skipped,
\* a TypeError when cleanVersion is given a value that is not a string.
SectionDependencies(manifest, section, skipped) ==
    LET Loop(entries) ==
            IF \E k \in 1..Len(entries) : entries[k].value.type # "string"
            THEN Threw("section", "version.replace is not a function")
            ELSE Returned("section",
                     [k \in 1..Len(entries) |->
                         Dependency(entries[k].key, CleanVersion(entries[k].value.chars))])
        Section(value) ==
            IF ~Truthy(value) THEN Returned("section", <<>>)
            ELSE Loop(SelectSeq(ObjectEntries(value), LAMBDA e : e.key \notin skipped))
    IN  Section(GetProperty(manifest, section))

\* The try block of parseNpm and parseComposer: JSON.parse, then the loops
\* over the two sections, and what the catch block makes of an error.
JsonManifest(content, fileName, first, skippedInFirst, second) ==
    LET failed(message) == Threw("parseContent", "Failed to parse " \o fileName \o ": " \o message)
        Sections(one, two) ==
            IF one.error # "none" THEN failed(one.error)
            ELSE IF two.error # "none" THEN failed(two.error)
            ELSE Returned("parseContent", one.value \o two.value)
        FromJson(json) ==
            IF ~json.ok THEN failed("Unexpected token in JSON")
            ELSE IF json.value.type = "null" THEN failed("Cannot read properties of null")
            ELSE Sections(SectionDependencies(json.value, first, skippedInFirst),
                          SectionDependencies(json.value, second, {}))
    IN  FromJson(JsonParse(content))

\* parseNpm going through devDependencies before dependencies.
ParseNpmDevFirst(content) == JsonManifest(content, "package.json", "devDependencies", {}, "dependencies")

\* DependencyParser.parseNpm
ParseNpm(content) == JsonManifest(content, "package.json", "dependencies", {}, "devDependencies")

\* DependencyParser.parseComposer
ParseComposer(content) ==
    JsonManifest(content, "composer.json", "require", {Chars("php")}, "require-dev")

----------------------------------------------------------------------------
(* parser.ts: the manifests scanned with regular expressions *)

\* DependencyParser.parsePypi
ParsePypi(content) ==
    LET \* [a-zA-Z0-9\-_.]
        nameChars == OneOf(Letters \cup Digits \cup {"-", "_", "."})
        requirement == <<StartOfInput, Repeat(nameChars, 1, TRUE, 1),
                         Repeat(OneOf(CharSet(">=<~!")), 1, TRUE, 2),
                         Repeat(nameChars, 1, TRUE, 3)>>
        simple == <<StartOfInput, Repeat(nameChars, 1, TRUE, 1), EndOfInput>>
        lines == SplitLines(content)
        OfLine(line) ==
            LET trimmed == Trim(line)
                match == Exec(requirement, trimmed, 1)
                simpleMatch == Exec(simple, trimmed, 1)
            IN  IF trimmed = <<>> \/ StartsWith(trimmed, "#") \/ StartsWith(trimmed, "-") THEN <<>>
                ELSE IF match.matched
                     THEN <<Dependency(ToLowerCase(match.groups[1]), CleanVersion(match.groups[3]))>>
                ELSE IF simpleMatch.matched
                     THEN <<Dependency(ToLowerCase(simpleMatch.groups[1]), Chars("latest"))>>
                ELSE <<>>
    IN  Returned("parseContent", Flatten([i \in 1..Len(lines) |-> OfLine(lines[i])]))

\* DependencyParser.parseMaven
ParseMaven(content) ==
    LET dependencyRegex ==
            <<Literal("<dependency>"), Repeat(AnyChar, 0, FALSE, 0),
              Literal("<groupId>"), Repeat(Dot, 0, FALSE, 1), Literal("</groupId>"),
              Repeat(AnyChar, 0, FALSE, 0),
              Literal("<artifactId>"), Repeat(Dot, 0, FALSE, 2), Literal("</artifactId>"),
              Repeat(AnyChar, 0, FALSE, 0),
              Literal("<version>"), Repeat(Dot, 0, FALSE, 3), Literal("</version>"),
              Repeat(AnyChar, 0, FALSE, 0), Literal("</dependency>")>>
        matches == ExecAll(dependencyRegex, content, 1)
    IN  Returned("parseContent",
            [i \in 1..Len(matches) |->
                Dependency(Trim(matches[i].groups[1]) \o <<":">> \o Trim(matches[i].groups[2]),
                           CleanVersion(Trim(matches[i].groups[3])))])

\* DependencyParser.parseNuget
ParseNuget(content) ==
    LET value(group) == Repeat(NoneOf({"\""}), 1, TRUE, group)
        packagesConfigRegex == <<Literal("<package id=\""), value(1), Literal("\" version=\""),
                                 value(2), Literal("\"")>>
        packageRefRegex == <<Literal("<PackageReference Include=\""), value(1),
                             Literal("\" Version=\""), value(2), Literal("\"")>>
        OfMatches(matches) ==
            [i \in 1..Len(matches) |->
                Dependency(Trim(matches[i].groups[1]), CleanVersion(Trim(matches[i].groups[2])))]
    IN  Returned("parseContent",
            OfMatches(ExecAll(packagesConfigRegex, content, 1))
            \o OfMatches(ExecAll(packageRefRegex, content, 1)))

\* DependencyParser.parseRubygems
ParseRubygems(content) ==
    LET quote == OneOf({"'", "\""})
        quoted(group) == <<One(quote), Repeat(NoneOf({"'", "\""}), 1, TRUE, group), One(quote)>>
        spaces == Repeat(OneOf(WhiteSpace), 0, TRUE, 0)
        gemRegex == <<Literal("gem"), Repeat(OneOf(WhiteSpace), 1, TRUE, 0)>> \o quoted(1)
                    \o <<Optional(<<spaces, Literal(","), spaces>> \o quoted(2))>>
        lines == SplitLines(content)
        OfLine(line) ==
            LET trimmed == Trim(line)
                gemMatch == Exec(gemRegex, trimmed, 1)
            IN  IF trimmed = <<>> \/ StartsWith(trimmed, "#") \/ ~gemMatch.matched THEN <<>>
                ELSE <<Dependency(Trim(gemMatch.groups[1]),
                                  IF gemMatch.groups[2] # NoCapture
                                  THEN CleanVersion(Trim(gemMatch.groups[2]))
                                  ELSE Chars("latest"))>>
    IN  Returned("parseContent", Flatten([i \in 1..Len(lines) |-> OfLine(lines[i])]))

\* DependencyParser.parseGo; Loop is the for loop over the lines that remain,
\* inRequireBlock being what the lines before them have made it.
ParseGo(content) ==
    LET word(group) == Repeat(NoneOf(WhiteSpace), 1, TRUE, group)
        space == Repeat(OneOf(WhiteSpace), 1, TRUE, 0)
        requireRegex == <<Optional(<<Literal("require"), space>>), word(1), space, word(2)>>
        RECURSIVE Loop(_, _)
        Loop(lines, inRequireBlock) ==
            LET trimmed == Trim(Head(lines))
                requireMatch == Exec(requireRegex, trimmed, 1)
            IN  IF lines = <<>> THEN <<>>
                ELSE IF trimmed = <<>> \/ StartsWith(trimmed, "//")
                     THEN Loop(Tail(lines), inRequireBlock)
                ELSE IF trimmed = Chars("require (") THEN Loop(Tail(lines), TRUE)
                ELSE IF trimmed = Chars(")") /\ inRequireBlock THEN Loop(Tail(lines), FALSE)
                ELSE IF (inRequireBlock \/ StartsWith(trimmed, "require ")) /\ requireMatch.matched
                     THEN <<Dependency(Trim(requireMatch.groups[1]),
                                       CleanVersion(Trim(requireMatch.groups[2])))>>
                          \o Loop(Tail(lines), inRequireBlock)
                ELSE Loop(Tail(lines), inRequireBlock)
    IN  Returned("parseContent", Loop(SplitLines(content), FALSE))

\* parseCargo with headers that never end a dependencies section.
ParseCargoOnceInside(content) ==
    LET spaces == Repeat(OneOf(WhiteSpace), 0, TRUE, 0)
        depRegex == <<StartOfInput, Repeat(NoneOf({"="} \cup WhiteSpace), 1, TRUE, 1), spaces,
                      Literal("="), spaces, Literal("\""), Repeat(NoneOf({"\""}), 1, TRUE, 2),
                      Literal("\"")>>
        RECURSIVE Loop(_, _)
        Loop(lines, inDependenciesSection) ==
            LET trimmed == Trim(Head(lines))
                depMatch == Exec(depRegex, trimmed, 1)
            IN  IF lines = <<>> THEN <<>>
                ELSE IF trimmed = <<>> \/ StartsWith(trimmed, "#")
                     THEN Loop(Tail(lines), inDependenciesSection)
                ELSE IF StartsWith(trimmed, "[")
                     THEN Loop(Tail(lines),
                               \/ inDependenciesSection
                               \/ trimmed \in {Chars("[dependencies]"), Chars("[dev-dependencies]")})
                ELSE IF inDependenciesSection /\ depMatch.matched
                     THEN <<Dependency(Trim(depMatch.groups[1]), CleanVersion(Trim(depMatch.groups[2])))>>
                          \o Loop(Tail(lines), inDependenciesSection)
                ELSE Loop(Tail(lines), inDependenciesSection)
    IN  Returned("parseContent", Loop(SplitLines(content), FALSE))

\* DependencyParser.parseCargo; Loop is the for loop over the lines that
\* remain, inDependenciesSection being what the lines before them have made it.
ParseCargo(content) ==
    LET spaces == Repeat(OneOf(WhiteSpace), 0, TRUE, 0)
        depRegex == <<StartOfInput, Repeat(NoneOf({"="} \cup WhiteSpace), 1, TRUE, 1), spaces,
                      Literal("="), spaces, Literal("\""), Repeat(NoneOf({"\""}), 1, TRUE, 2),
                      Literal("\"")>>
        RECURSIVE Loop(_, _)
        Loop(lines, inDependenciesSection) ==
            LET trimmed == Trim(Head(lines))
                depMatch == Exec(depRegex, trimmed, 1)
            IN  IF lines = <<>> THEN <<>>
                ELSE IF trimmed = <<>> \/ StartsWith(trimmed, "#")
                     THEN Loop(Tail(lines), inDependenciesSection)
                ELSE IF StartsWith(trimmed, "[")
                     THEN Loop(Tail(lines),
                               trimmed \in {Chars("[dependencies]"), Chars("[dev-dependencies]")})
                ELSE IF inDependenciesSection /\ depMatch.matched
                     THEN <<Dependency(Trim(depMatch.groups[1]), CleanVersion(Trim(depMatch.groups[2])))>>
                          \o Loop(Tail(lines), inDependenciesSection)
                ELSE Loop(Tail(lines), inDependenciesSection)
    IN  Returned("parseContent", Loop(SplitLines(content), FALSE))

\* parseContent answering an ecosystem it does not know with an empty list.
ParseContentLenient(content, eco) ==
    CASE eco = "npm" -> ParseNpm(content)
      [] eco = "pypi" -> ParsePypi(content)
      [] eco = "maven" -> ParseMaven(content)
      [] eco = "nuget" -> ParseNuget(content)
      [] eco = "rubygems" -> ParseRubygems(content)
      [] eco = "composer" -> ParseComposer(content)
      [] eco = "go" -> ParseGo(content)
      [] eco = "cargo" -> ParseCargo(content)
      [] OTHER -> Returned("parseContent", <<>>)

\* DependencyParser.parseContent
ParseContent(content, eco) ==
    CASE eco = "npm" -> ParseNpm(content)
      [] eco = "pypi" -> ParsePypi(content)
      [] eco = "maven" -> ParseMaven(content)
      [] eco = "nuget" -> ParseNuget(content)
      [] eco = "rubygems" -> ParseRubygems(content)
      [] eco = "composer" -> ParseComposer(content)
      [] eco = "go" -> ParseGo(content)
      [] eco = "cargo" -> ParseCargo(content)
      [] OTHER -> Threw("parseContent", "Unsupported ecosystem: " \o eco)

----------------------------------------------------------------------------
(* The manifests parseContent is applied to *)

\* A manifest is written as a sequence of parts (lines, elements, members of
\* the top-level JSON object).  A part has its text; the section it opens, if
\* it is a header ("(same)" otherwise); and the dependencies it declares, as
\* the manifest format defines them, when it stands in one of the sections
\* `within` ("(any)": wherever it stands).  A declaration has the name and the
\* version constraint as written (Undefined: none written) and the group of
\* the manifest it belongs to.  (Between "require (" and ")" every line of a
\* go.mod is a module path and a version, whatever its words.)
Declares(name, version, group) == [name |-> name, version |-> version, group |-> group]

Noise(text) == [text |-> text, opens |-> "(same)", within |-> {}, declares |-> <<>>]

Header(text, section) == [text |-> text, opens |-> section, within |-> {}, declares |-> <<>>]

Declaration(text, within, declares) ==
    [text |-> text, opens |-> "(same)", within |-> within, declares |-> declares]

ManifestParts ==
    [npm |-> {
        Noise("\"name\":\"app\""),
        Declaration("\"dependencies\":{\"lodash\":\"^4.17.21\",\"express\":\"~4.18.0\"}", {"(any)"},
            <<Declares("lodash", "^4.17.21", "dependencies"), Declares("express", "~4.18.0", "dependencies")>>),
        Declaration("\"dependencies\":{\"semver\":\">=1.0.0 <2.0.0\"}", {"(any)"},
            <<Declares("semver", ">=1.0.0 <2.0.0", "dependencies")>>),
        Declaration("\"dependencies\":{\"10\":\"1.0.0\",\"b\":\"1.0.0\",\"2\":\"1.0.0\"}", {"(any)"},
            <<Declares("10", "1.0.0", "dependencies"), Declares("b", "1.0.0", "dependencies"),
              Declares("2", "1.0.0", "dependencies")>>),
        Declaration("\"devDependencies\":{\"lodash\":\"4.17.21\"}", {"(any)"},
            <<Declares("lodash", "4.17.21", "devDependencies")>>),
        Declaration("\"devDependencies\":{\"jest\":\"^29.0.0 || ^28.0.0\"}", {"(any)"},
            <<Declares("jest", "^29.0.0 || ^28.0.0", "devDependencies")>>),
        Declaration("\"dependencies\":{\"left-pad\":\"\"}", {"(any)"},
            <<Declares("left-pad", "", "dependencies")>>),
        Declaration("\"devDependencies\":{\"\":\"1.0.0\"}", {"(any)"},
            <<Declares("", "1.0.0", "devDependencies")>>)},
     composer |-> {
        Noise("\"name\":\"acme/app\""),
        Declaration("\"require\":{\"php\":\">=7.4\",\"monolog/monolog\":\"^2.0\"}", {"(any)"},
            <<Declares("php", ">=7.4", "require"), Declares("monolog/monolog", "^2.0", "require")>>),
        Declaration("\"require\":{\"ext-json\":\"*\",\"monolog/monolog\":\"^2.0\"}", {"(any)"},
            <<Declares("ext-json", "*", "require"), Declares("monolog/monolog", "^2.0", "require")>>),
        Declaration("\"require-dev\":{\"phpunit/phpunit\":\"^9.5\",\"php\":\">=8.0\"}", {"(any)"},
            <<Declares("phpunit/phpunit", "^9.5", "require-dev"), Declares("php", ">=8.0", "require-dev")>>),
        Declaration("\"require-dev\":{\"monolog/monolog\":\"^2.0 || ^3.0\"}", {"(any)"},
            <<Declares("monolog/monolog", "^2.0 || ^3.0", "require-dev")>>)},
     pypi |-> {
        Noise("# pinned"),
        Noise("-r base.txt"),
        Declaration("requests==2.28.0", {"(any)"}, <<Declares("requests", "==2.28.0", "requirements")>>),
        Declaration("Flask>=2.0,<3.0", {"(any)"}, <<Declares("flask", ">=2.0,<3.0", "requirements")>>),
        Declaration("numpy", {"(any)"}, <<Declares("numpy", Undefined, "requirements")>>),
        Declaration("requests[security]>=2.0", {"(any)"}, <<Declares("requests", ">=2.0", "requirements")>>),
        Declaration("django >= 4.0", {"(any)"}, <<Declares("django", ">= 4.0", "requirements")>>)},
     maven |-> {
        Noise("<dependencies>"),
        Noise("<parent><groupId>p</groupId><artifactId>q</artifactId><version>1</version></parent>"),
        Declaration("<dependency><groupId>junit</groupId><artifactId>junit</artifactId><version>4.13</version></dependency>",
            {"(any)"}, <<Declares("junit:junit", "4.13", "dependency")>>),
        Declaration("<dependency><groupId>g</groupId><artifactId>a</artifactId><version>[1.0,2.0)</version></dependency>",
            {"(any)"}, <<Declares("g:a", "[1.0,2.0)", "dependency")>>),
        Declaration("<dependency><groupId>org.slf4j</groupId><artifactId>slf4j-api</artifactId></dependency>",
            {"(any)"}, <<Declares("org.slf4j:slf4j-api", Undefined, "dependency")>>)},
     nuget |-> {
        Noise("<ItemGroup>"),
        Declaration("<package id=\"A\" version=\"1.0.0\" />", {"(any)"},
            <<Declares("A", "1.0.0", "packages.config")>>),
        Declaration("<package id=\"B\" version=\"[1.0,2.0)\" />", {"(any)"},
            <<Declares("B", "[1.0,2.0)", "packages.config")>>),
        Declaration("<PackageReference Include=\"A\" Version=\"1.0.0\" />", {"(any)"},
            <<Declares("A", "1.0.0", "PackageReference")>>),
        Declaration("<PackageReference Include=\"C\" Version=\"3.1.*\" />", {"(any)"},
            <<Declares("C", "3.1.*", "PackageReference")>>)},
     rubygems |-> {
        Noise("source 'https://rubygems.org'"),
        Noise("# gem 'old'"),
        Declaration("gem 'rails', '~> 7.0'", {"(any)"}, <<Declares("rails", "~> 7.0", "Gemfile")>>),
        Declaration("gem \"rake\"", {"(any)"}, <<Declares("rake", Undefined, "Gemfile")>>),
        Declaration("gem 'pg', '>= 1.0', '< 2.0'", {"(any)"}, <<Declares("pg", ">= 1.0, < 2.0", "Gemfile")>>)},
     go |-> {
        Declaration("module example.com/m", {"require"},
            <<Declares("module", "example.com/m", "require")>>),
        Noise("// indirect"),
        Header("require (", "require"),
        Header(")", "(top)"),
        Header("require ( // direct", "require"),
        Noise("replace (\ngithub.com/a/b => ../b\n)"),
        [text |-> "require (\ngithub.com/e/f v1.0.0\n)", opens |-> "(top)", within |-> {"(any)"},
         declares |-> <<Declares("github.com/e/f", "v1.0.0", "require")>>],
        Declaration("github.com/a/b v1.2.3", {"require"}, <<Declares("github.com/a/b", "v1.2.3", "require")>>),
        Declaration("require github.com/c/d v0.1.0", {"(any)"},
            <<Declares("github.com/c/d", "v0.1.0", "require")>>)},
     cargo |-> {
        Header("[package]", "package"),
        Header("[dependencies]", "dependencies"),
        Header("[dev-dependencies]", "dev-dependencies"),
        Header("[dependencies]\n# pinned\n[features]", "features"),
        Declaration("name = \"x\"", {"dependencies", "dev-dependencies"},
            <<Declares("name", "x", "dependencies")>>),
        Declaration("serde = \"1.0\"", {"dependencies", "dev-dependencies"},
            <<Declares("serde", "1.0", "dependencies")>>),
        Declaration("tokio = { version = \"1\", features = [\"full\"] }", {"dependencies", "dev-dependencies"},
            <<Declares("tokio", "1", "dependencies")>>)}]

\* The text of a manifest: the members of the one JSON object, or the lines.
Render(dialect, parts) ==
    LET RECURSIVE Join(_, _)
        Join(texts, separator) ==
            IF texts = <<>> THEN <<>>
            ELSE IF Len(texts) = 1 THEN Chars(texts[1])
            ELSE Chars(texts[1]) \o Chars(separator) \o Join(Tail(texts), separator)
        texts == [i \in 1..Len(parts) |-> parts[i].text]
    IN  IF dialect \in {"npm", "composer"} THEN <<"{">> \o Join(texts, ",") \o <<"}">>
        ELSE Join(texts, "\n")

\* The manifests of a dialect of up to MaxParts parts; a JSON object has no
\* two members of the same name.
Manifests(dialect) ==
    LET MemberName(part) == SubSeq(Chars(part.text), 1, RunLength(NoneOf({":"}), Chars(part.text), 1))
        lists == {parts \in SeqsUpTo(ManifestParts[dialect], MaxParts) :
                    dialect \in {"npm", "composer"} =>
                        \A i, j \in 1..Len(parts) : i # j => MemberName(parts[i]) # MemberName(parts[j])}
    IN  {[dialect |-> dialect, parts |-> parts, content |-> Render(dialect, parts),
          jsonObject |-> dialect \in {"npm", "composer"}] : parts \in lists}

\* The contents parseContent is given: the manifests of every dialect, and
\* texts that are no JSON objects.
ParseInputs ==
    UNION {Manifests(dialect) : dialect \in DOMAIN ManifestParts}
    \cup {[dialect |-> "npm", parts |-> <<>>, content |-> Chars(text), jsonObject |-> FALSE] :
            text \in {"", "{", "[]", "123", "null", "\"^1.0\"", "[{\"dependencies\":{\"a\":\"1.0\"}}]"}}

\* The ecosystem arguments of parseContent: those of parseFile, and more
\* strings that are none of the eight identifiers.
EcosystemArguments == ParseEcosystems \cup {"", "NPM", "pip"}

\* A manifest text, an ecosystem, and parseContent applied to them.
InitContent ==
    /\ NoCommand
    /\ input \in ParseInputs
    /\ ecosystem \in EcosystemArguments
    /\ disk = {}
    /\ unlistable = {}
    /\ maxDepth = 0
    /\ detectedFiles = <<>>
    /\ given = <<>>
    /\ bestFile = Null
    /\ target = NoTarget
    /\ outcome = Null
    /\ structure = Null
    /\ pc = "content"

ParseContentCall ==
    /\ pc = "content"
    /\ outcome' = ParseContent(input.content, ecosystem)
    /\ pc' = "content parsed"
    /\ UNCHANGED <<disk, maxDepth, detectedFiles, given, ecosystem, bestFile, target,
                   unlistable, structure, input, cliVars>>

SpecContent == InitContent /\ [][ParseContentCall]_vars

----------------------------------------------------------------------------
(* Configuration and the API client *)

DEFAULT_CONFIG ==
    [api_url |-> "https://api-dev.vulnify.io", timeout |-> 30000,
     severity_threshold |-> "medium", output_format |-> "table",
     generate_report |-> TRUE, report_filename |-> "vulnify-report.json"]

\* { ...a, ...b }
Spread(a, b) == [key \in DOMAIN a \cup DOMAIN b |-> IF key \in DOMAIN b THEN b[key] ELSE a[key]]

\* object[key], undefined when the object has no such property
Property(object, key) == IF key \in DOMAIN object THEN object[key] ELSE Undefined

\* A string of process.env that is set and not empty.
IsSet(value) == value # Undefined /\ value # ""

\* parseInt(string, 10): white space, a sign and the digits that follow
\* them; NaN when no digit follows.
ParseInt(string) ==
    LET s == Chars(string)
        Number(first, sign) ==
            LET RECURSIVE Value(_)
                Value(n) == IF n = 0 THEN 0
                            ELSE 10 * Value(n - 1)
                                 + (CHOOSE d \in 0..9 : ToString(d) = s[first + n - 1])
                Count(n) == [isNaN |-> n = 0, value |-> sign * Value(n)]
            IN  Count(RunLength(OneOf(Digits), s, first))
        Signed(first) ==
            IF first <= Len(s) /\ s[first] = "-" THEN Number(first + 1, -1)
            ELSE IF first <= Len(s) /\ s[first] = "+" THEN Number(first + 1, 1)
            ELSE Number(first, 1)
    IN  Signed(1 + RunLength(OneOf(WhiteSpace), s, 1))

\* ConfigManager.loadFromEnv
LoadFromEnv(config, processEnv) ==
    LET Output(c) ==
            IF IsSet(processEnv.VULNIFY_OUTPUT) /\ processEnv.VULNIFY_OUTPUT \in {"json", "table", "summary"}
            THEN Spread(c, [output_format |-> processEnv.VULNIFY_OUTPUT]) ELSE c
        Timeout(c) ==
            Output(IF IsSet(processEnv.VULNIFY_TIMEOUT) /\ ~ParseInt(processEnv.VULNIFY_TIMEOUT).isNaN
                   THEN Spread(c, [timeout |-> ParseInt(processEnv.VULNIFY_TIMEOUT).value]) ELSE c)
        MongoUrl(c) ==
            Timeout(IF IsSet(processEnv.VULNIFY_MONGO_API_URL)
                    THEN Spread(c, [mongo_api_url |-> processEnv.VULNIFY_MONGO_API_URL]) ELSE c)
        Url(c) ==
            MongoUrl(IF IsSet(processEnv.VULNIFY_API_URL)
                     THEN Spread(c, [api_url |-> processEnv.VULNIFY_API_URL]) ELSE c)
    IN  Url(IF IsSet(processEnv.VULNIFY_API_KEY)
            THEN Spread(config, [api_key |-> processEnv.VULNIFY_API_KEY]) ELSE config)

\* new ConfigManager(): the defaults, then loadConfig.  A .vulnifyrc is Null
\* when the file does not exist, and readJsonSync throws when it is not
\* valid; path.join('', '.vulnifyrc') is the file of the working directory.
LoadConfig(e) ==
    LET homeDir == IF IsSet(e.vars.HOME) THEN e.vars.HOME
                   ELSE IF IsSet(e.vars.USERPROFILE) THEN e.vars.USERPROFILE ELSE ""
        Home(homeRc) ==
            LoadFromEnv(IF homeRc # Null /\ homeRc.valid
                        THEN Spread(DEFAULT_CONFIG, homeRc.json) ELSE DEFAULT_CONFIG,
                        e.vars)
    IN  IF e.projectRc # Null /\ e.projectRc.valid THEN Spread(DEFAULT_CONFIG, e.projectRc.json)
        ELSE Home(IF homeDir = "" THEN e.projectRc ELSE e.homeRc)

\* new MongoApiClient(): the base URL of the client and, when the URL of the
\* fallback differs from it, a fallbackClient.  getMongoApiUrl and getApiUrl
\* both return config.api_url.
MongoApiClient(config) ==
    LET getMongoApiUrl == Property(config, "api_url")
        getApiUrl == Property(config, "api_url")
        fallbackUrl == getApiUrl
    IN  [client |-> [baseURL |-> IF getMongoApiUrl \notin {Undefined, ""} THEN getMongoApiUrl
                                 ELSE getApiUrl],
         fallbackClient |->
            IF fallbackUrl \notin {Undefined, ""} /\ fallbackUrl # getMongoApiUrl
            THEN [baseURL |-> fallbackUrl,
                  params |-> IF Property(config, "api_key") \notin {Undefined, ""}
                             THEN [apiKey |-> config.api_key] ELSE Null]
            ELSE Undefined]

\* What a server answers to a POST: a response with a status and a body, or
\* no response at all (status 0).  The client resolves for a status below
\* 500 (validateStatus), the fallbackClient for a status 2xx (axios default).
Post(baseURL, body) == [baseURL |-> baseURL, url |-> "/api/v1/analyze", data |-> body]

\* MongoApiClient.analyze(request): the requests it sends and what it
\* returns or throws, primary and fallback being the answers of the servers.
Analyze(api, request, primary, fallback) ==
    IF primary.status # 0 /\ primary.status < 500
    THEN [sent |-> <<Post(api.client.baseURL, request)>>,
          outcome |-> Returned("analyze", primary.data)]
    ELSE IF api.fallbackClient # Undefined
    THEN [sent |-> <<Post(api.client.baseURL, request), Post(api.fallbackClient.baseURL, request)>>,
          outcome |-> IF fallback.status \in 200..299 /\ fallback.data # Null
                      THEN Returned("analyze", fallback.data)
                      ELSE Threw("analyze", "All vulnerability analysis services are unavailable")]
    ELSE [sent |-> <<Post(api.client.baseURL, request)>>,
          outcome |-> Threw("analyze", IF primary.status = 0 THEN "Network Error"
                                       ELSE "Request failed with status code 500")]

\* What a .vulnifyrc can be: absent (Null), not valid JSON, or a JSON object.
RcFiles(key, url) ==
    {Null, [valid |-> FALSE, json |-> Null],
     [valid |-> TRUE, json |-> [api_key |-> key]],
     [valid |-> TRUE, json |-> [api_url |-> url, timeout |-> 1000]]}

\* process.env
Environments ==
    [VULNIFY_API_KEY : {Undefined, "env-key"},
     VULNIFY_API_URL : {Undefined, "https://env.example"},
     VULNIFY_MONGO_API_URL : {Undefined, "https://mongo.example"},
     VULNIFY_TIMEOUT : {Undefined, "5000", "abc", " 12abc"},
     VULNIFY_OUTPUT : {Undefined, "json", "xml"},
     HOME : {Undefined, "/home/u"},
     USERPROFILE : {Undefined}]

\* What a server does with a POST: it answers with a status and a body, or
\* it cannot be reached (status 0).
Answers ==
    {[status |-> 200, data |-> [status |-> "success", results |-> [vulnerabilities_found |-> 0]]],
     [status |-> 400, data |-> [status |-> "error", message |-> "Bad request"]],
     [status |-> 503, data |-> Null],
     [status |-> 0, data |-> Null]}

\* The process before its modules are loaded: its environment, the two
\* .vulnifyrc files and the servers it will talk to.
InitBoot ==
    /\ env \in [vars : Environments,
                projectRc : RcFiles("project-key", "https://project.example"),
                homeRc : RcFiles("home-key", "https://home.example"),
                primary : Answers, fallback : {answer \in Answers : answer.status \in {200, 503}}]
    /\ configManager = Null
    /\ mongoApiClient = Null
    /\ requests = <<>>
    /\ options = Null
    /\ parsedDeps = Null
    /\ exitCode = Null
    /\ disk = {}
    /\ unlistable = {}
    /\ maxDepth = 0
    /\ detectedFiles = <<>>
    /\ given = <<>>
    /\ ecosystem = Undefined
    /\ bestFile = Null
    /\ target = NoTarget
    /\ outcome = Null
    /\ structure = Null
    /\ input = Null
    /\ pc = "boot"

\* export const config = new ConfigManager()
NewConfigManager ==
    /\ pc = "boot"
    /\ configManager' = LoadConfig(env)
    /\ pc' = "configured"
    /\ UNCHANGED <<disk, maxDepth, detectedFiles, given, ecosystem, bestFile, target, outcome,
                   unlistable, structure, input, env, mongoApiClient, requests, options,
                   parsedDeps, exitCode>>

\* export const mongoApiClient = new MongoApiClient()
NewMongoApiClient ==
    /\ pc = "configured"
    /\ mongoApiClient' = MongoApiClient(configManager)
    /\ pc' = "ready"
    /\ UNCHANGED <<disk, maxDepth, detectedFiles, given, ecosystem, bestFile, target, outcome,
                   unlistable, structure, input, env, configManager, requests, options,
                   parsedDeps, exitCode>>

\* mongoApiClient.analyze(request)
AnalyzeCall ==
    /\ pc = "ready"
    /\ \E request \in
            {[ecosystem |-> "npm", dependencies |-> <<[name |-> "left-pad", version |-> "1.3.0"]>>],
             [ecosystem |-> "pypi", dependencies |-> <<[name |-> "flask", version |-> "latest"]>>]} :
        /\ input' = request
        /\ requests' = requests \o Analyze(mongoApiClient, request, env.primary, env.fallback).sent
        /\ outcome' = Analyze(mongoApiClient, request, env.primary, env.fallback).outcome
    /\ pc' = "analyzed"
    /\ UNCHANGED <<disk, maxDepth, detectedFiles, given, ecosystem, bestFile, target,
                   unlistable, structure, env, configManager, mongoApiClient, options,
                   parsedDeps, exitCode>>

NextClient == NewConfigManager \/ NewMongoApiClient \/ AnalyzeCall

SpecClient == InitBoot /\ [][NextClient]_vars

----------------------------------------------------------------------------
(* The test command *)

\* validateFileParameter, validateEcosystemParameter and
\* validateOutputParameter, in the order the command applies them: the
\* message of the first that fails, "none" when all pass.
ValidationError(opts, file) ==
    IF IsSet(opts.file) /\ ~file.exists THEN "File not found: " \o opts.file
    ELSE IF IsSet(opts.file) /\ ~file.isFile THEN "Path is not a file: " \o opts.file
    ELSE IF IsSet(opts.ecosystem)
            /\ opts.ecosystem \notin {"npm", "pypi", "maven", "nuget", "rubygems", "composer", "go", "cargo"}
         THEN "Unsupported ecosystem: " \o opts.ecosystem
    ELSE IF (IF IsSet(opts.output) THEN opts.output ELSE "enhanced")
            \notin {"json", "table", "summary", "enhanced"}
         THEN "Unsupported output format: " \o opts.output
    ELSE "none"

\* The selection of the manifest: detectFile on options.file, or detectFiles
\* and getBestFile; the file and the ecosystem the command goes on with, or
\* the message of the error it throws.
SelectManifest(opts, file, fs, depthLimit, order) ==
    LET failed(message) ==
            [error |-> message, ecosystem |-> Undefined, bestFile |-> Null,
             detectedFiles |-> <<>>, given |-> <<>>]
        FromFile(detected) ==
            IF detected.error # "none" THEN failed(detected.error)
            ELSE IF detected.value = Null
            THEN failed("Could not detect ecosystem for file: " \o opts.file)
            ELSE [error |-> "none",
                  ecosystem |-> IF IsSet(opts.ecosystem) THEN opts.ecosystem
                                ELSE detected.value.ecosystem,
                  bestFile |-> detected.value, detectedFiles |-> <<>>, given |-> <<>>]
        Best(files, best) ==
            IF best = Null
            THEN failed("Could not determine the best dependency file to analyze")
            ELSE [error |-> "none", ecosystem |-> best.ecosystem, bestFile |-> best,
                  detectedFiles |-> ArrayAfterGetBestFile(files, opts.ecosystem),
                  given |-> files]
        FromProject(detected) ==
            IF detected.error # "none" THEN failed(detected.error)
            ELSE IF Len(detected.value) = 0
            THEN failed("No dependency files found in current directory or subdirectories.")
            ELSE Best(detected.value, GetBestFile(detected.value, opts.ecosystem))
    IN  IF IsSet(opts.file) THEN FromFile(DetectFile(file))
        ELSE FromProject(DetectFilesOutcome(fs, depthLimit, order))

\* parseFile(filePath, ecosystem) with the dependencies parseContent reads
\* in the text of the file.
ParseManifestFile(absolutePath, file, eco) ==
    LET Read(dependencies) ==
            IF dependencies.error # "none" THEN Threw("parseFile", dependencies.error)
            ELSE Returned("parseFile", [ecosystem |-> eco, dependencies |-> dependencies.value,
                                        source_file |-> absolutePath])
    IN  IF ~file.exists THEN Threw("parseFile", "File not found")
        ELSE IF ~file.readable THEN Threw("parseFile", "ReadError")
        ELSE Read(ParseContent(Render("text", [i \in DOMAIN file.content |-> [text |-> file.content[i]]]),
                                 eco))

\* A command that analyses whatever list was parsed.
NoDependenciesFoundNever(parsed) == FALSE

\* parsedDeps.dependencies.length === 0
NoDependenciesFound(parsed) == Len(parsed.dependencies) = 0

\* analysisResponse.status !== 'success' || !analysisResponse.results
AnalysisFailed(response) ==
    \/ Property(response, "status") # "success"
    \/ "results" \notin DOMAIN response

severityLevels == <<"low", "medium", "high", "critical">>

\* severityLevels.indexOf(severity), counted from 1; 0 when absent
SeverityIndex(severity) ==
    IF \E i \in DOMAIN severityLevels : severityLevels[i] = severity
    THEN CHOOSE i \in DOMAIN severityLevels : severityLevels[i] = severity
    ELSE 0

\* The summary counted over the vulnerabilities of the dependencies.
Summary(dependencies) ==
    LET RECURSIVE Count(_, _)
        Count(level, d) ==
            IF d = 0 THEN 0
            ELSE Count(level, d - 1)
                 + Len(SelectSeq(dependencies[d].vulnerabilities, LAMBDA vuln : vuln.severity = level))
    IN  [level \in {"critical", "high", "medium", "low"} |-> Count(level, Len(dependencies))]

\* The filter of --severity: the vulnerabilities below the level are
\* dropped and the summary and vulnerabilities_found recounted; the
\* results are left as they are without a level of severityLevels.
FilterBySeverity(results, severity) ==
    LET Recounted(dependencies) ==
            [results EXCEPT !.dependencies = dependencies,
                            !.summary = Summary(dependencies),
                            !.vulnerabilities_found =
                                Summary(dependencies).critical + Summary(dependencies).high
                                + Summary(dependencies).medium + Summary(dependencies).low]
    IN  IF IsSet(severity) /\ SeverityIndex(severity) # 0
        THEN Recounted([d \in DOMAIN results.dependencies |->
                [results.dependencies[d] EXCEPT !.vulnerabilities =
                    SelectSeq(@, LAMBDA vuln : SeverityIndex(vuln.severity) >= SeverityIndex(severity))]])
        ELSE results

\* The argument of process.exit after an analysis.
ExitCode(results) ==
    IF results.vulnerabilities_found > 0
    THEN IF results.summary.critical > 0 \/ results.summary.high > 0 THEN 1 ELSE 0
    ELSE 0

\* The files --file can name: a manifest, a manifest with nothing in it, a
\* text file with and without the signature of an ecosystem, a directory
\* and a path that does not exist.
TestTargets ==
    {[name |-> "package.json", exists |-> TRUE, isFile |-> TRUE, readable |-> TRUE,
      content |-> <<"{\"dependencies\":{\"lodash\":\"^4.17.21\"}}">>],
     [name |-> "package.json", exists |-> TRUE, isFile |-> TRUE, readable |-> TRUE, content |-> <<>>],
     [name |-> "requirements.txt", exists |-> TRUE, isFile |-> TRUE, readable |-> TRUE,
      content |-> <<"requests>=2.0.0">>],
     [name |-> "requirements.txt", exists |-> TRUE, isFile |-> TRUE, readable |-> TRUE, content |-> <<>>],
     [name |-> "notes.txt", exists |-> TRUE, isFile |-> TRUE, readable |-> TRUE,
      content |-> <<"requests>=2.0.0">>],
     [name |-> "notes.txt", exists |-> TRUE, isFile |-> TRUE, readable |-> TRUE,
      content |-> <<"serde = \"1.0\"", "requests>=2.0.0">>],
     [name |-> "a", exists |-> TRUE, isFile |-> FALSE, readable |-> FALSE, content |-> <<>>],
     [name |-> "missing.json", exists |-> FALSE, isFile |-> FALSE, readable |-> FALSE, content |-> <<>>]}

\* The file of TestTargets a path of the project directory can be.
FilesAt(path) == {file \in TestTargets : file.name = BaseName(path) /\ file.isFile}

\* The body of a successful analysis of one dependency with vulnerabilities
\* of the given severities.
AnalysisResults(severities) ==
    LET dependencies == <<[name |-> "lodash",
                           vulnerabilities |-> [i \in DOMAIN severities |-> [severity |-> severities[i]]]]>>
    IN  [status |-> "success",
         results |-> [dependencies |-> dependencies, summary |-> Summary(dependencies),
                      vulnerabilities_found |-> Len(severities)]]

\* What the analysis service answers to the command.
TestAnswers ==
    {[status |-> 200, data |-> AnalysisResults(severities)] :
        severities \in {<<>>, <<"low">>, <<"medium", "high">>, <<"high">>, <<"critical", "low">>}}
    \cup {answer \in Answers : answer.status # 200}

\* The options of the command line (commander's defaults included).
TestOptions(file) ==
    [file : {IF file = NoTarget THEN Undefined ELSE file.name},
     ecosystem : {Undefined, "npm", "pypi", "pip"},
     output : {"enhanced", "xml"},
     severity : {Undefined, "medium", "critical"},
     apiKey : {Undefined},
     timeout : {"30000"},
     maxDepth : {"3"}]

\* The command started: the modules are loaded (the configuration read and
\* the client made), the options are parsed, nothing is done yet and no
\* service has answered.
InitTest ==
    /\ \/ /\ target \in TestTargets
          /\ disk = {}
       \/ /\ target = NoTarget
          /\ disk \in SubsetsUpTo({ProjectPath \o <<"package.json">>,
                                   ProjectPath \o <<"requirements.txt">>,
                                   ProjectPath \o <<"a", "package.json">>,
                                   ProjectPath \o <<"notes.txt">>}, MaxFiles)
    /\ options \in TestOptions(target)
    /\ env \in [vars : {e \in Environments : \A key \in DOMAIN e : e[key] = Undefined},
                projectRc : {Null}, homeRc : {Null},
                primary : {Null}, fallback : {Null}]
    /\ configManager = LoadConfig(env)
    /\ mongoApiClient = MongoApiClient(configManager)
    /\ requests = <<>>
    /\ parsedDeps = Null
    /\ exitCode = Null
    /\ unlistable = {}
    /\ maxDepth = 0
    /\ detectedFiles = <<>>
    /\ given = <<>>
    /\ ecosystem = Undefined
    /\ bestFile = Null
    /\ outcome = Null
    /\ structure = Null
    /\ input = Null
    /\ pc = "test"

\* The validation of the options: process.exit(1) on the first that fails.
TestValidate ==
    /\ pc = "test"
    /\ outcome' = IF ValidationError(options, target) = "none" THEN outcome
                  ELSE Threw("validate", ValidationError(options, target))
    /\ exitCode' = IF ValidationError(options, target) = "none" THEN exitCode ELSE 1
    /\ pc' = IF ValidationError(options, target) = "none" THEN "validated" ELSE "exited"
    /\ UNCHANGED <<disk, maxDepth, detectedFiles, given, ecosystem, bestFile, target,
                   unlistable, structure, input, env, configManager, mongoApiClient, requests,
                   options, parsedDeps>>

\* The options written to the configuration, the detector made, and the
\* manifest selected; an error goes to the catch block: process.exit(2).
TestSelect ==
    /\ pc = "validated"
    /\ configManager' =
            Spread(IF IsSet(options.apiKey) THEN Spread(configManager, [api_key |-> options.apiKey])
                   ELSE configManager,
                   IF IsSet(options.timeout) THEN [timeout |-> ParseInt(options.timeout).value]
                   ELSE <<>>)
    /\ maxDepth' = IF IsSet(options.maxDepth) THEN ParseInt(options.maxDepth).value ELSE 3
    /\ LET Selected(selected) ==
            /\ ecosystem' = selected.ecosystem
            /\ bestFile' = selected.bestFile
            /\ detectedFiles' = selected.detectedFiles
            /\ given' = selected.given
            /\ outcome' = IF selected.error = "none" THEN Returned("select", selected.bestFile)
                          ELSE Threw("select", selected.error)
            /\ exitCode' = IF selected.error = "none" THEN exitCode ELSE 2
            /\ pc' = IF selected.error = "none" THEN "selected" ELSE "exited"
       IN  \E order \in ReaddirOrders :
            Selected(SelectManifest(options, target, FileSystem, maxDepth', order))
    /\ UNCHANGED <<disk, target, unlistable, structure, input, env, mongoApiClient, requests,
                   options, parsedDeps>>

\* parser.parseFile(filePath, ecosystem) and the check for dependencies.
TestParse ==
    /\ pc = "selected"
    /\ LET Read(file, parsed) ==
            /\ target' = file
            /\ outcome' = IF parsed.error = "none" /\ NoDependenciesFound(parsed.value)
                          THEN Threw("parse", "No dependencies found in the specified file")
                          ELSE parsed
            /\ parsedDeps' = IF parsed.error = "none" THEN parsed.value ELSE parsedDeps
            /\ exitCode' = IF outcome'.error = "none" THEN exitCode ELSE 2
            /\ pc' = IF outcome'.error = "none" THEN "parsed" ELSE "exited"
       IN  \E file \in (IF IsSet(options.file) THEN {target} ELSE FilesAt(bestFile.path)) :
            Read(file, ParseManifestFile(bestFile.path, file, ecosystem))
    /\ UNCHANGED <<disk, maxDepth, detectedFiles, given, ecosystem, bestFile,
                   unlistable, structure, input, env, configManager, mongoApiClient, requests,
                   options>>

\* mongoApiClient.analyze(...) with what the services answer (env.primary,
\* env.fallback: Null until they are asked), the filter of --severity, the report
\* written when the configuration asks for one (a failure to write it is
\* only logged) and the exit.
TestAnalyze ==
    /\ pc = "parsed"
    /\ LET Analyzed(analysis, failed) ==
            /\ requests' = requests \o analysis.sent
            /\ input' = IF failed THEN input
                        ELSE FilterBySeverity(analysis.outcome.value.results, options.severity)
            /\ outcome' = IF analysis.outcome.error = "none" /\ failed
                          THEN Threw("analyze", "Analysis failed") ELSE analysis.outcome
            /\ exitCode' = IF failed THEN 2 ELSE ExitCode(input')
            /\ \/ disk' = disk
               \/ /\ ~failed /\ configManager.generate_report
                  /\ disk' = disk \cup {ProjectPath \o <<configManager.report_filename>>}
           Response(analysis) ==
            Analyzed(analysis, analysis.outcome.error # "none" \/ AnalysisFailed(analysis.outcome.value))
       IN  \E primary \in TestAnswers, fallback \in {answer \in Answers : answer.status = 200} :
            /\ env' = [env EXCEPT !.primary = primary, !.fallback = fallback]
            /\ Response(Analyze(mongoApiClient,
                                [ecosystem |-> parsedDeps.ecosystem,
                                 dependencies |-> parsedDeps.dependencies],
                                primary, fallback))
    /\ pc' = "exited"
    /\ UNCHANGED <<maxDepth, detectedFiles, given, ecosystem, bestFile, target,
                   unlistable, structure, configManager, mongoApiClient, options, parsedDeps>>

NextTest == TestValidate \/ TestSelect \/ TestParse \/ TestAnalyze

SpecTest == InitTest /\ [][NextTest]_vars

----------------------------------------------------------------------------
(* Notions the properties are stated with *)

\* Every file name of the registry.
RegistryFileNames ==
    UNION {Range(ECOSYSTEM_CONFIGS[c].primary) \cup Range(ECOSYSTEM_CONFIGS[c].lockfiles)
           \cup Range(ECOSYSTEM_CONFIGS[c].config) : c \in DOMAIN ECOSYSTEM_CONFIGS}

\* A .NET project or solution file, by its extension.
IsDotNetFile(f) == ExtName(BaseName(f.path)) \in {".csproj", ".fsproj", ".vbproj", ".sln"}

\* How many directory levels below the project root the file's directory lies.
ContainingLevel(f) == Len(DirName(f.path)) - Len(ProjectPath)

\* The registry name a file was matched by, and the depth of the directory it
\* was joined to.
RegistryNameOf(f) ==
    CHOOSE n \in RegistryFileNames :
        Len(n) < Len(f.path) /\ SubSeq(f.path, Len(f.path) - Len(n) + 1, Len(f.path)) = n

ScannedDepth(f) == Len(f.path) - Len(RegistryNameOf(f)) - Len(ProjectPath)

\* The candidates of the ecosystem asked for, and the candidates the choice
\* is made among: those, when an ecosystem is asked for and has candidates.
HintMatches == SelectSeq(given, LAMBDA f : f.ecosystem = ecosystem)

Considered == IF ecosystem \notin {Undefined, ""} /\ Len(HintMatches) > 0 THEN HintMatches ELSE given

\* A confidence in hundredths, the rounding of double arithmetic left aside.
Hundredths(confidence) == (confidence + 5) \div 10

\* max(floor, base - d * decay) in exact arithmetic, in hundredths.
FormulaHundredths(type, d) ==
    LET base == CASE type = "primary" -> 90 [] type = "lockfile" -> 70 [] type = "config" -> 30
        decay == CASE type = "primary" -> 20 [] type = "lockfile" -> 20 [] type = "config" -> 10
        floor == CASE type = "primary" -> 50 [] type = "lockfile" -> 30 [] type = "config" -> 10
    IN  IF d = 0 THEN base ELSE Max(floor, base - d * decay)

\* The same formula evaluated in doubles: 0.9, 0.7, 0.5, 0.5, ... for primary,
\* 0.7, 0.49999999999999994, 0.3, 0.3, ... for lockfile and
\* 0.3, 0.19999999999999998, 0.1, 0.1, ... for config.
FormulaDouble(type, d) ==
    CASE type = "primary" -> IF d = 0 THEN 900 ELSE IF d = 1 THEN 700 ELSE 500
      [] type = "lockfile" -> IF d = 0 THEN 700 ELSE IF d = 1 THEN 499 ELSE 300
      [] type = "config" -> IF d = 0 THEN 300 ELSE IF d = 1 THEN 199 ELSE 100

TypeFloor(type) == CASE type = "primary" -> 500 [] type = "lockfile" -> 300 [] type = "config" -> 100

\* Two files classified by the same rule: the same registry list, or the
\* same .NET extension.
SameRule(f, g) ==
    /\ f.type = g.type
    /\ IsDotNetFile(f) = IsDotNetFile(g)
    /\ IsDotNetFile(f) => ExtName(BaseName(f.path)) = ExtName(BaseName(g.path))

\* The depth the rule saw the file at.
RuleDepth(f) == IF IsDotNetFile(f) THEN ContainingLevel(f) ELSE ScannedDepth(f)

\* The registry entries a file name equals: ecosystem, type, confidence.
RegistryClass(fileName) ==
    UNION {(IF <<fileName>> \in Range(ECOSYSTEM_CONFIGS[c].primary)
            THEN {<<ECOSYSTEM_CONFIGS[c].name, "primary", 900>>} ELSE {})
           \cup (IF <<fileName>> \in Range(ECOSYSTEM_CONFIGS[c].lockfiles)
                 THEN {<<ECOSYSTEM_CONFIGS[c].name, "lockfile", 700>>} ELSE {})
           \cup (IF <<fileName>> \in Range(ECOSYSTEM_CONFIGS[c].config)
                 THEN {<<ECOSYSTEM_CONFIGS[c].name, "config", 300>>} ELSE {})
           : c \in DOMAIN ECOSYSTEM_CONFIGS}

\* detectFile reaches content sniffing: the name is in no registry list and
\* the extension is not a .NET project's.
ReachesSniffing(file) ==
    /\ file.exists
    /\ RegistryClass(file.name) = {}
    /\ ExtName(file.name) \notin {".csproj", ".fsproj", ".vbproj"}

TargetPath == ProjectPath \o <<target.name>>

----------------------------------------------------------------------------
(* Properties *)

\* C1, as stated: whenever the candidate list holds a primary file,
\* getBestFile returns a primary file, for every ecosystem hint.
C1_PrimaryWheneverPresent ==
    pc = "chosen" /\ (\E i \in DOMAIN given : given[i].type = "primary")
        => bestFile.type = "primary"

\* C1, amended: whenever the candidates the choice is made among (those of
\* the ecosystem asked for when there are any, all of them otherwise) hold
\* a primary file, getBestFile returns a primary file, whatever the
\* confidences of the lockfile and config candidates.
C1_PrimaryAmongConsidered ==
    pc = "chosen" /\ (\E i \in DOMAIN Considered : Considered[i].type = "primary")
        => bestFile.type = "primary"

\* A primary file was chosen over a candidate of the asked ecosystem that is
\* no primary file and has a higher confidence.
C1_Witness ==
    /\ pc = "chosen"
    /\ Len(given) > 0
    /\ ecosystem = "npm"
    /\ bestFile.type = "primary"
    /\ \E i \in DOMAIN Considered :
        Considered[i].type # "primary" /\ Considered[i].confidence > bestFile.confidence

\* C2: with an ecosystem asked for, the file returned is of that ecosystem
\* and is the one chosen among the candidates of that ecosystem alone when
\* there are any; when there are none it is the file chosen with no
\* ecosystem asked for.
C2_HintRestrictsOrFallsBack ==
    pc = "chosen" /\ Len(given) > 0 /\ ecosystem \notin {Undefined, ""}
        => IF Len(HintMatches) > 0
           THEN /\ bestFile.ecosystem = ecosystem
                /\ bestFile \in Range(given)
                /\ bestFile = GetBestFile(HintMatches, Undefined)
           ELSE bestFile = GetBestFile(given, Undefined)

\* The ecosystem asked for changed the choice: without it a file of another
\* ecosystem is returned.
C2_Witness ==
    /\ pc = "chosen"
    /\ Len(given) > 0
    /\ ecosystem = "npm"
    /\ Len(HintMatches) > 0
    /\ bestFile.ecosystem = "npm"
    /\ GetBestFile(given, Undefined).ecosystem # "npm"

\* C3, as stated: the ranking does not depend on the order the candidates
\* were found in: for every order of the directory listings detectFiles
\* returns the same sequence and getBestFile the same file.
C3_RankingIndependentOfTraversal ==
    pc = "chosen" =>
        \A order \in ReaddirOrders :
            /\ DetectFiles(FileSystem, maxDepth, order) = given
            /\ GetBestFile(DetectFiles(FileSystem, maxDepth, order), ecosystem) = bestFile

\* C4, as stated: when a candidate lies directly in the project root, every
\* file detectFiles returns lies directly in the project root.
C4_NothingBelowRootWhenRootHasCandidate ==
    pc = "detected" /\ (\E i \in DOMAIN detectedFiles : DirName(detectedFiles[i].path) = ProjectPath)
        => \A i \in DOMAIN detectedFiles : DirName(detectedFiles[i].path) = ProjectPath

\* What holds of detectFiles in the place of C4: when the scan of the root
\* finds a registry file (the root joined with a registry name), the registry
\* scan does not descend: every file returned is such a file of the root, or
\* a .NET project or solution file, which the separate .NET scan collects at
\* every depth up to maxDepth.
RegistryScanStaysAtRoot ==
    pc = "detected" /\ (\E n \in RegistryFileNames : PathExists(FileSystem, ProjectPath \o n))
        => \A i \in DOMAIN detectedFiles :
            \/ \E n \in RegistryFileNames : detectedFiles[i].path = ProjectPath \o n
            \/ IsDotNetFile(detectedFiles[i])

\* The root holds a registry file, and a registry file within maxDepth below
\* it is not reported.
RegistryScanStaysAtRoot_Witness ==
    /\ pc = "detected"
    /\ maxDepth >= 1
    /\ \E n \in RegistryFileNames : PathExists(FileSystem, ProjectPath \o n)
    /\ \E p \in disk :
        /\ DirName(p) = ProjectPath \o <<"a">>
        /\ <<BaseName(p)>> \in RegistryFileNames
        /\ \A i \in DOMAIN detectedFiles : detectedFiles[i].path # p

C7_WithinMaxDepth ==
    pc = "detected" =>
        \A i \in DOMAIN detectedFiles : ContainingLevel(detectedFiles[i]) <= maxDepth

\* C8: detectFile on an existing path returns the registry entry the file
\* name equals, with 0.9, 0.7 or 0.3; otherwise nuget, primary, 0.9 for a
\* .csproj, .fsproj or .vbproj extension; otherwise what content sniffing
\* returns.  In the first two cases the result is the same for every content.
C8_Precedence ==
    pc = "classified" /\ target.exists =>
        IF RegistryClass(target.name) # {}
        THEN \E e \in RegistryClass(target.name) :
                outcome = Returned("detectFile", DetectedFile(TargetPath, e[1], e[3], e[2]))
        ELSE IF ExtName(target.name) \in {".csproj", ".fsproj", ".vbproj"}
             THEN outcome = Returned("detectFile", DetectedFile(TargetPath, "nuget", 900, "primary"))
             ELSE outcome = Returned("detectFile", DetectByContent(TargetPath, target))

\* A .csproj file whose content carries the npm signature was classified nuget.
C8_Witness ==
    /\ pc = "classified"
    /\ target.name = "app.csproj"
    /\ target.readable
    /\ PatternTest("npm", target.content)
    /\ outcome.value.ecosystem = "nuget"

\* C9: detectFile and parseFile raise FileNotFound exactly when the path does
\* not exist (parseFile also with an unsupported ecosystem); detectFile on
\* an existing path raises nothing, and returns no classification when
\* sniffing is reached and no signature matches or the file cannot be read.
C9_FileNotFoundExactly ==
    /\ pc \in {"classified", "parsed"} => (outcome.error = "FileNotFound" <=> ~target.exists)
    /\ pc = "classified" /\ target.exists => outcome.error = "none"
    /\ pc = "classified" /\ ReachesSniffing(target)
       /\ (~target.readable \/ \A eco \in Range(ecosystemPriority) : ~PatternTest(eco, target.content))
            => outcome.value = Null

\* parseFile with an unsupported ecosystem on a path that does not exist
\* raised FileNotFound.
C9_Witness ==
    /\ pc = "parsed"
    /\ ~target.exists
    /\ ecosystem = "unknown"
    /\ outcome.error = "FileNotFound"

\* C10: content sniffing returns the first ecosystem, in the order npm, pypi,
\* maven, nuget, rubygems, composer, go, cargo, whose signature matches, as
\* primary with confidence 0.7 for pypi and rubygems and 0.8 for the others,
\* and none when no signature matches; the text "[dependencies]" followed by
\* the line serde = "1.0" is classified cargo, primary, 0.8.
C10_FirstMatchInOrder ==
    pc = "classified" /\ ReachesSniffing(target) /\ target.readable =>
        LET order == <<"npm", "pypi", "maven", "nuget", "rubygems", "composer", "go", "cargo">>
            matching == {k \in DOMAIN order : PatternTest(order[k], target.content)}
            first == CHOOSE k \in matching : \A m \in matching : k <= m
        IN  /\ outcome.error = "none"
            /\ IF matching = {} THEN outcome.value = Null
               ELSE outcome.value = DetectedFile(TargetPath, order[first],
                        IF order[first] \in {"pypi", "rubygems"} THEN 700 ELSE 800, "primary")
            /\ target.content = <<"[dependencies]", "serde = \"1.0\"">>
                => outcome.value = DetectedFile(TargetPath, "cargo", 800, "primary")

\* A content whose first line carries the cargo signature and whose second
\* line carries the npm signature was classified npm.
C10_Witness ==
    /\ pc = "classified"
    /\ ReachesSniffing(target)
    /\ target.readable
    /\ Len(target.content) = 2
    /\ "cargo" \in LineMatches(target.content[1])
    /\ "npm" \in LineMatches(target.content[2])
    /\ outcome.value.ecosystem = "npm"

\* The directories a scan has to list before it reaches a file: those from
\* the project directory down to the file's own directory for a .NET file,
\* those above the directory scanned for a registry file found below the root.
ListedOnTheWay(f) ==
    IF IsDotNetFile(f)
    THEN {SubSeq(f.path, 1, k) : k \in Len(ProjectPath)..(Len(f.path) - 1)}
    ELSE {SubSeq(f.path, 1, k) : k \in Len(ProjectPath)..(Len(ProjectPath) + ScannedDepth(f) - 1)}

\* C11: isMonorepo is true exactly when more than one directory holds a
\* primary file; then subprojects has one entry for each such directory, with
\* the ecosystem of a primary file of the directory and the number of
\* DetectedFiles of the directory; otherwise subprojects is empty.
C11_MonorepoDetection ==
    pc = "structured" =>
        LET files == detectedFiles
            primaryDirs == {DirName(files[i].path) : i \in {j \in DOMAIN files : files[j].type = "primary"}}
            subprojects == structure.subprojects
        IN  /\ structure.isMonorepo <=> Cardinality(primaryDirs) > 1
            /\ structure.isMonorepo =>
                /\ Len(subprojects) = Cardinality(primaryDirs)
                /\ {subprojects[k].path : k \in DOMAIN subprojects} = primaryDirs
                /\ \A k \in DOMAIN subprojects :
                    /\ \E i \in DOMAIN files :
                        /\ files[i].type = "primary"
                        /\ DirName(files[i].path) = subprojects[k].path
                        /\ files[i].ecosystem = subprojects[k].ecosystem
                    /\ subprojects[k].files
                        = Cardinality({i \in DOMAIN files : DirName(files[i].path) = subprojects[k].path})
            /\ ~structure.isMonorepo => subprojects = <<>>

\* Primary files in two directories, one of them holding a second file: a
\* monorepo of two subprojects, one counted with two files.
C11_Witness ==
    /\ pc = "structured"
    /\ structure.isMonorepo
    /\ Len(structure.subprojects) = 2
    /\ \E k \in DOMAIN structure.subprojects : structure.subprojects[k].files = 2

\* C12: detectFiles returns a list for every file tree, also when the
\* project directory does not exist or directories cannot be listed; it
\* reports every file it reports when all directories can be listed, those
\* excepted that lie behind a directory that cannot be listed.
C12_DetectFilesNeverFails ==
    pc \in {"detected", "failed"} =>
        /\ outcome.error = "none"
        /\ outcome.value = detectedFiles
        /\ Range(detectedFiles)
            = {f \in Range(DetectFiles(OnDisk(disk), maxDepth, EntryNames)) :
                    ListedOnTheWay(f) \cap unlistable = {}}

\* The directory a cannot be listed and hides a file; the file of its sibling
\* b is reported.
C12_Witness ==
    /\ pc = "detected"
    /\ ProjectPath \o <<"a">> \in unlistable
    /\ ProjectPath \o <<"a", "app.csproj">> \in disk
    /\ \A i \in DOMAIN detectedFiles : detectedFiles[i].path # ProjectPath \o <<"a", "app.csproj">>
    /\ \E i \in DOMAIN detectedFiles : detectedFiles[i].path = ProjectPath \o <<"b", "package.json">>

----------------------------------------------------------------------------
(* cleanVersion: C16, C17 *)

\* The characters a version constraint begins with.
ComparatorChars == CharSet("^~>=<!")

RECURSIVE DropLeading(_, _)
DropLeading(s, chars) == IF s # <<>> /\ Head(s) \in chars THEN DropLeading(Tail(s), chars) ELSE s

\* s without its first || and what follows it, and without the white space
\* before that ||.
CutAtFirstOr(s) ==
    LET ors == {k \in 1..(Len(s) - 1) : s[k] = "|" /\ s[k + 1] = "|"}
        before == (CHOOSE k \in ors : \A j \in ors : k <= j) - 1
        kept == {k \in 1..before : s[k] \notin WhiteSpace}
    IN  IF ors = {} THEN s
        ELSE IF kept = {} THEN <<>>
        ELSE SubSeq(s, 1, CHOOSE k \in kept : \A j \in kept : j <= k)

\* The three steps of the description, with the leading characters it names.
CleanedAsDescribed(x, leading) == Trim(CutAtFirstOr(DropLeading(x, leading)))

\* C16: cleanVersion(x) is x without its maximal leading run of ^ ~ > = < !,
\* then without its first || (with the white space before it) and everything
\* after, then trimmed.
C16_CleanVersionAsDescribed ==
    pc = "cleaned" => outcome.value = CleanedAsDescribed(input, ComparatorChars)

\* What cleanVersion does do: the three steps with the leading run taken over
\* ^ ~ > = < only, for a version string on one line.
CleanVersionOnOneLine ==
    (pc = "cleaned" /\ \A i \in 1..Len(input) : input[i] \notin LineTerminators)
        => outcome.value = CleanedAsDescribed(input, CharSet("^~>=<"))

CleanVersionOnOneLine_Witness ==
    /\ pc = "cleaned"
    /\ input = Chars("^1||")
    /\ outcome.value = Chars("1")

\* C17: cleaning a cleaned version string changes nothing.
C17_CleanVersionIdempotent ==
    pc = "cleaned" => CleanVersion(outcome.value) = outcome.value

----------------------------------------------------------------------------
(* parseContent: C13, C14, C15, C18, C19, C20 *)

\* The eight ecosystem identifiers.
KnownEcosystems == {"npm", "pypi", "maven", "nuget", "rubygems", "composer", "go", "cargo"}

UnsupportedEcosystem(error, eco) == error = "Unsupported ecosystem: " \o eco

\* C13: parseContent fails with UnsupportedEcosystem exactly when its
\* ecosystem argument is none of the eight identifiers, whatever the content.
C13_UnsupportedEcosystemExactly ==
    pc = "content parsed" =>
        (UnsupportedEcosystem(outcome.error, ecosystem) <=> ecosystem \notin KnownEcosystems)

C13_Witness ==
    /\ pc = "content parsed"
    /\ ecosystem = "NPM"
    /\ input.content = Chars("{\"dependencies\":{\"semver\":\">=1.0.0 <2.0.0\"}}")
    /\ outcome.error = "Unsupported ecosystem: NPM"
    /\ outcome.value = Null


\* The call the properties are about has returned a list, or has failed.
Parsed == pc = "content parsed"

ReturnedList == Parsed /\ outcome.error = "none"

\* The manifest file of the ecosystems whose manifests are JSON objects.
JsonManifestFile == [npm |-> "package.json", composer |-> "composer.json"]

\* The error says which manifest could not be parsed, and why.
ManifestParseError(error, eco) ==
    \E cause \in {"Unexpected token in JSON", "Cannot read properties of null",
                  "version.replace is not a function"} :
        error = "Failed to parse " \o JsonManifestFile[eco] \o ": " \o cause

\* C14: for npm and composer a content that is no JSON object makes
\* parseContent fail with a ManifestParseError naming the manifest and the
\* cause, without a list; for the six other ecosystems parseContent returns a
\* list for every content.
C14_ManifestParseError ==
    Parsed =>
        /\ (ecosystem \in DOMAIN JsonManifestFile /\ ~input.jsonObject)
                => (ManifestParseError(outcome.error, ecosystem) /\ outcome.value = Null)
        /\ ecosystem \in KnownEcosystems \ DOMAIN JsonManifestFile
                => (outcome.error = "none" /\ Len(outcome.value) >= 0)

\* What parseContent does do: for npm and composer it fails, with such an
\* error, on every content that is no JSON text at all, and the parsers of the
\* six other ecosystems never fail.
ParseFailures ==
    Parsed =>
        /\ (ecosystem \in DOMAIN JsonManifestFile /\ ~JsonParse(input.content).ok)
                => (ManifestParseError(outcome.error, ecosystem) /\ outcome.value = Null)
        /\ ecosystem \in KnownEcosystems \ DOMAIN JsonManifestFile => outcome.error = "none"

ParseFailures_Witness ==
    /\ Parsed
    /\ ecosystem = "composer"
    /\ input.content = Chars("requests==2.28.0\n# pinned")
    /\ outcome.error = "Failed to parse composer.json: Unexpected token in JSON"

\* The section the i-th part of a manifest stands in.
Section(parts, i) ==
    LET headers == {j \in 1..(i - 1) : parts[j].opens # "(same)"}
    IN  IF headers = {} THEN "(top)"
        ELSE parts[CHOOSE j \in headers : \A k \in headers : k <= j].opens

\* The dependencies a manifest declares, in the order of its text: those of
\* its parts that stand where they are declarations, the section a part
\* stands in being the one the last header before it opens.
Declarations(parts) ==
    Flatten([i \in 1..Len(parts) |->
                IF "(any)" \in parts[i].within \/ Section(parts, i) \in parts[i].within
                THEN parts[i].declares ELSE <<>>])

\* The packages a manifest declares: composer's "php" is the language
\* runtime, no package.
Packages(manifest) ==
    SelectSeq(Declarations(manifest.parts),
              LAMBDA d : ~(manifest.dialect = "composer" /\ d.name = "php"))

Count(s, Test(_)) == Cardinality({i \in 1..Len(s) : Test(s[i])})

\* C15: when parseContent returns a list for a manifest of its ecosystem, the
\* list has a Dependency for every dependency the manifest declares: none is
\* dropped.
C15_NoSilentPartialResults ==
    (ReturnedList /\ ecosystem = input.dialect) =>
        \A d \in Range(Packages(input)) :
            Count(outcome.value, LAMBDA dep : dep.name = Chars(d.name))
                >= Count(Packages(input), LAMBDA e : e.name = d.name)

\* C18: no version parseContent returns holds a comparator character, a ||
\* or white space between two constraints.
C18_SingleConcreteVersion ==
    ReturnedList =>
        \A k \in 1..Len(outcome.value) :
            LET version == outcome.value[k].version
            IN  \A i \in 1..Len(version) :
                    /\ version[i] \notin ComparatorChars
                    /\ version[i] \notin WhiteSpace
                    /\ ~(version[i] = "|" /\ (i < Len(version) /\ version[i + 1] = "|"))

\* C19: of a composer.json, parseContent returns no Dependency named php,
\* and returns every other entry of require and of require-dev.
C19_ComposerExcludesPhp ==
    (ReturnedList /\ ecosystem = "composer") =>
        /\ \A k \in 1..Len(outcome.value) : outcome.value[k].name # Chars("php")
        /\ input.dialect = "composer" =>
                \A d \in Range(Packages(input)) :
                    \E k \in 1..Len(outcome.value) :
                        outcome.value[k] = Dependency(Chars(d.name), CleanVersion(Chars(d.version)))

ReturnedNames == [k \in 1..Len(outcome.value) |-> outcome.value[k].name]

DeclaredNames(declarations) == [k \in 1..Len(declarations) |-> Chars(declarations[k].name)]

\* The names returned as many times as the list of names declares them.
AgreedNames(declared) ==
    {name \in Range(ReturnedNames) :
        Count(ReturnedNames, LAMBDA n : n = name) = Count(declared, LAMBDA n : n = name)}

\* The list returned is in the order of the names declared, as far as the
\* names returned as many times as they are declared go.
ReturnedInOrderOf(declared) ==
    SelectSeq(ReturnedNames, LAMBDA n : n \in AgreedNames(declared))
        = SelectSeq(declared, LAMBDA n : n \in AgreedNames(declared))

\* A name declared in two groups of the manifest (the runtime and the dev
\* section) is returned at least twice.
DuplicatesKept ==
    \A d, e \in Range(Packages(input)) :
        (d.name = e.name /\ d.group # e.group)
            => Count(outcome.value, LAMBDA dep : dep.name = Chars(d.name)) >= 2

\* C20: the Dependencies parseContent returns for a manifest of its
\* ecosystem are in the order the manifest declares them, and a package
\* declared in the runtime and in the dev section is returned twice.
C20_DeclarationOrder ==
    (ReturnedList /\ ecosystem = input.dialect) =>
        /\ ReturnedInOrderOf(DeclaredNames(Declarations(input.parts)))
        /\ DuplicatesKept

\* The groups of declarations the parsers go through one after the other.
GroupOrder ==
    [npm |-> <<"dependencies", "devDependencies">>, composer |-> <<"require", "require-dev">>,
     nuget |-> <<"packages.config", "PackageReference">>, pypi |-> <<"requirements">>,
     maven |-> <<"dependency">>, rubygems |-> <<"Gemfile">>, go |-> <<"require">>,
     cargo |-> <<"dependencies">>]

\* The order in which Object.entries lists the entries of a JSON object:
\* those whose name is an array index first, by ascending index, then the
\* others as the text has them.
PropertyOrder(declarations) ==
    LET IsIndex(d) ==
            LET name == Chars(d.name)
            IN  /\ Len(name) \in 1..9
                /\ \A i \in 1..Len(name) : name[i] \in Digits
                /\ name[1] = "0" => Len(name) = 1
        RECURSIVE Index(_)
        Index(name) ==
            IF name = <<>> THEN 0
            ELSE 10 * Index(SubSeq(name, 1, Len(name) - 1))
                 + (CHOOSE n \in 0..9 : ToString(n) = name[Len(name)])
        indices == Range(SelectSeq(declarations, IsIndex))
    IN  [k \in 1..Cardinality(indices) |->
            CHOOSE d \in indices :
                Cardinality({e \in indices : Index(Chars(e.name)) < Index(Chars(d.name))}) = k - 1]
        \o SelectSeq(declarations, LAMBDA d : ~IsIndex(d))

\* The declarations of a manifest group by group, each group in the order
\* of the text, or in the order of Object.entries when the group is a JSON
\* object.
GroupByGroup(manifest) ==
    LET groups == GroupOrder[manifest.dialect]
        Group(g) == SelectSeq(Declarations(manifest.parts), LAMBDA d : d.group = g)
    IN  Flatten([g \in 1..Len(groups) |->
                    IF manifest.dialect \in DOMAIN JsonManifestFile
                    THEN PropertyOrder(Group(groups[g])) ELSE Group(groups[g])])

\* C20 as the code has it: the Dependencies returned are in the order of the
\* declarations taken group by group.
C20_DeclarationOrderWithinGroups ==
    (ReturnedList /\ ecosystem = input.dialect) =>
        /\ ReturnedInOrderOf(DeclaredNames(GroupByGroup(input)))
        /\ DuplicatesKept

C20_Witness ==
    /\ ReturnedList
    /\ ecosystem = "npm"
    /\ input.content = Chars("{\"devDependencies\":{\"lodash\":\"4.17.21\"},\"dependencies\":{\"lodash\":\"^4.17.21\",\"express\":\"~4.18.0\"}}")
    /\ outcome.value = <<Dependency(Chars("lodash"), Chars("4.17.21")),
                         Dependency(Chars("express"), Chars("4.18.0")),
                         Dependency(Chars("lodash"), Chars("4.17.21"))>>


\* The declarations of the manifest that give no version.
WithoutVersion(name) ==
    /\ \E d \in Range(Declarations(input.parts)) : Chars(d.name) = name
    /\ \A d \in Range(Declarations(input.parts)) : Chars(d.name) = name => d.version = Undefined

\* C21: every Dependency parseContent returns has a name that is not empty
\* and a version that is not empty, and its version is "latest" when the
\* manifest declares no version for it.
C21_NameAndVersion ==
    ReturnedList =>
        \A k \in 1..Len(outcome.value) :
            /\ outcome.value[k].name # <<>>
            /\ outcome.value[k].version # <<>>
            /\ (ecosystem = input.dialect /\ WithoutVersion(outcome.value[k].name))
                    => outcome.value[k].version = Chars("latest")

\* What parsePypi and parseRubygems do: a declaration without a version is
\* returned with the version "latest".
LatestWhenBare ==
    (ReturnedList /\ ecosystem = input.dialect /\ ecosystem \in {"pypi", "rubygems"}) =>
        \A k \in 1..Len(outcome.value) :
            WithoutVersion(outcome.value[k].name) => outcome.value[k].version = Chars("latest")

LatestWhenBare_Witness ==
    /\ ReturnedList
    /\ ecosystem = "rubygems"
    /\ input.content = Chars("gem \"rake\"")
    /\ outcome.value = <<Dependency(Chars("rake"), Chars("latest"))>>

\* The lines of a Cargo.toml of the form key = "version".
KeyVersionLines(parts) ==
    [i \in 1..Len(parts) |->
        IF \E d \in Range(parts[i].declares) :
                parts[i].text = d.name \o " = \"" \o d.version \o "\""
        THEN parts[i] ELSE [parts[i] EXCEPT !.declares = <<>>]]

\* C25: of a Cargo.toml parseContent returns a Dependency for the lines
\* key = "version" whose last header before them is [dependencies] or
\* [dev-dependencies], in their order, and for no other line.
C25_CargoSections ==
    (ReturnedList /\ ecosystem = "cargo" /\ input.dialect = "cargo") =>
        outcome.value =
            LET yielding == Declarations(KeyVersionLines(input.parts))
            IN  [k \in 1..Len(yielding) |->
                    Dependency(Chars(yielding[k].name), Chars(yielding[k].version))]

\* A line under a header that follows [dependencies] yields nothing.
C25_Witness ==
    /\ ReturnedList
    /\ ecosystem = "cargo"
    /\ input.content = Chars("[dependencies]\n# pinned\n[features]\nserde = \"1.0\"")
    /\ outcome.value = <<>>

\* C26: every Dependency parseContent returns for a go.mod is the module
\* path and the version of a line inside a require block or of a line
\* require path version.
C26_GoRequireBlocks ==
    (ReturnedList /\ ecosystem = "go" /\ input.dialect = "go") =>
        \A k \in 1..Len(outcome.value) :
            \E d \in Range(Declarations(input.parts)) :
                outcome.value[k] = Dependency(Chars(d.name), Chars(d.version))

\* A go.mod whose require blocks are opened by a line require ( and hold
\* no other block.
PlainRequireBlocks(parts) ==
    \A i \in 1..Len(parts) :
        /\ parts[i].text # "require ( // direct"
        /\ parts[i].text = "replace (\ngithub.com/a/b => ../b\n)" => Section(parts, i) # "require"

\* What parseGo does for such a go.mod: it returns the lines of the require
\* blocks and the lines require path version, and nothing else.
GoRequireBlocks ==
    (ReturnedList /\ ecosystem = "go" /\ input.dialect = "go" /\ PlainRequireBlocks(input.parts)) =>
        outcome.value =
            LET yielding == Declarations(input.parts)
            IN  [k \in 1..Len(yielding) |->
                    Dependency(Chars(yielding[k].name), Chars(yielding[k].version))]

GoRequireBlocks_Witness ==
    /\ ReturnedList
    /\ ecosystem = "go"
    /\ input.content = Chars("require (\ngithub.com/e/f v1.0.0\n)\nreplace (\ngithub.com/a/b => ../b\n)")
    /\ outcome.value = <<Dependency(Chars("github.com/e/f"), Chars("v1.0.0"))>>

\* C27: of a pom.xml parseContent returns, in the order of the blocks, one
\* Dependency for every dependency block that has a version, with the
\* groupId, the artifactId and the version of that block.
C27_MavenBlocks ==
    (ReturnedList /\ ecosystem = "maven" /\ input.dialect = "maven") =>
        outcome.value =
            LET complete == SelectSeq(Declarations(input.parts), LAMBDA d : d.version # Undefined)
            IN  [k \in 1..Len(complete) |->
                    Dependency(Chars(complete[k].name), Chars(complete[k].version))]

\* What parseMaven does when every dependency block has a version.
MavenCompleteBlocks ==
    (\A d \in Range(Declarations(input.parts)) : d.version # Undefined) => C27_MavenBlocks

MavenCompleteBlocks_Witness ==
    /\ ReturnedList
    /\ ecosystem = "maven"
    /\ Len(input.parts) = 2
    /\ Len(outcome.value) = 2
    /\ outcome.value[1] = Dependency(Chars("g:a"), Chars("[1.0,2.0)"))
    /\ outcome.value[2] = Dependency(Chars("junit:junit"), Chars("4.13"))


\* C30: the first file of the list detectFiles returns is the file
\* getBestFile returns for that list when no ecosystem is asked for.
C30_FirstIsBest ==
    (pc = "chosen" /\ ecosystem = Undefined /\ given # <<>>) => bestFile = given[1]

----------------------------------------------------------------------------
(* The configuration loaded from the environment *)

\* Each variable of the environment that is set is the value of its key in
\* the configuration, VULNIFY_TIMEOUT as the number parseInt reads in it.
EnvironmentLoaded ==
    /\ env.vars.VULNIFY_API_KEY # Undefined
        => Property(configManager, "api_key") = env.vars.VULNIFY_API_KEY
    /\ env.vars.VULNIFY_API_URL # Undefined
        => configManager.api_url = env.vars.VULNIFY_API_URL
    /\ (env.vars.VULNIFY_TIMEOUT # Undefined /\ ~ParseInt(env.vars.VULNIFY_TIMEOUT).isNaN)
        => configManager.timeout = ParseInt(env.vars.VULNIFY_TIMEOUT).value

\* C24: once the configuration is loaded, VULNIFY_API_KEY, VULNIFY_API_URL
\* and a numeric VULNIFY_TIMEOUT of the environment are its api_key, api_url
\* and timeout, whether or not a valid .vulnifyrc exists.
C24_EnvironmentAlwaysLoaded == configManager # Null => EnvironmentLoaded

\* The environment is loaded when the project directory holds no valid
\* .vulnifyrc, whatever the home directory holds.
EnvironmentLoadedWithoutProjectRc ==
    (configManager # Null /\ ~(env.projectRc # Null /\ env.projectRc.valid)) => EnvironmentLoaded

EnvironmentLoadedWithoutProjectRc_Witness ==
    /\ configManager # Null
    /\ env.projectRc # Null /\ ~env.projectRc.valid
    /\ env.homeRc # Null /\ env.homeRc.valid /\ "api_url" \in DOMAIN env.homeRc.json
    /\ env.vars.HOME # Undefined
    /\ env.vars.VULNIFY_API_URL # Undefined
    /\ env.vars.VULNIFY_TIMEOUT = " 12abc"
    /\ configManager.api_url = "https://env.example"
    /\ configManager.timeout = 12

----------------------------------------------------------------------------
(* The fallback of the API client *)

PrimaryFailed == env.primary.status = 0 \/ env.primary.status >= 500

\* C28: when the request to the primary service fails, analyze sends the
\* request to the fallback service exactly once before it raises anything,
\* and 'All vulnerability analysis services are unavailable' is raised only
\* after both requests failed.
C28_FallbackAttempted ==
    pc = "analyzed" =>
        /\ PrimaryFailed =>
            /\ Len(requests) = 2
            /\ requests[2].data = input
        /\ ~PrimaryFailed => Len(requests) = 1
        /\ outcome.error = "All vulnerability analysis services are unavailable"
            => PrimaryFailed /\ Len(requests) = 2 /\ env.fallback.status \notin 200..299

\* What analyze does: one request, to the base URL of the configuration;
\* its body is returned when the status is below 500 and the failure is
\* raised as it is otherwise.
SingleRequest ==
    pc = "analyzed" =>
        /\ requests = <<Post(configManager.api_url, input)>>
        /\ mongoApiClient.fallbackClient = Undefined
        /\ outcome.error = "none" <=> ~PrimaryFailed
        /\ outcome.error = "none" => outcome.value = env.primary.data

SingleRequest_Witness ==
    /\ pc = "analyzed"
    /\ PrimaryFailed
    /\ env.fallback.status = 200
    /\ env.vars.VULNIFY_MONGO_API_URL # Undefined
    /\ outcome.error = "Network Error"

----------------------------------------------------------------------------
(* The test command: exit codes, forced ecosystem, order of the steps *)

Exited == pc = "exited"

\* The options passed the validation.
Validated == ValidationError(options, target) = "none"

\* The analysis succeeded: the service answered the request with a body of
\* status 'success' that has results.
AnalysisSucceeded ==
    /\ requests # <<>>
    /\ env.primary.status \in 200..499
    /\ env.primary.data.status = "success"

severityRank == [low |-> 1, medium |-> 2, high |-> 3, critical |-> 4]

\* The severities the service reported that --severity lets through.
ReportedSeverities ==
    LET dependencies == env.primary.data.results.dependencies
        reported == UNION {{dependencies[d].vulnerabilities[v].severity :
                                v \in DOMAIN dependencies[d].vulnerabilities} : d \in DOMAIN dependencies}
    IN  {s \in reported : options.severity # Undefined => severityRank[s] >= severityRank[options.severity]}

CriticalOrHighFound == ReportedSeverities \cap {"critical", "high"} # {}

\* C22: the command exits 0 when the analysis succeeded and no critical or
\* high vulnerability was found, 1 only when the analysis succeeded and a
\* critical or high vulnerability was found (after the --severity filter),
\* and 2 on every error: invalid option values, a missing file, no manifest
\* detected, no dependencies, a failure of the API.
C22_ExitCodes ==
    Exited =>
        /\ (AnalysisSucceeded /\ ~CriticalOrHighFound) => exitCode = 0
        /\ exitCode = 1 => (AnalysisSucceeded /\ CriticalOrHighFound)
        /\ ~AnalysisSucceeded => exitCode = 2

\* The exit codes of the command as it is: 1 also when an option fails the
\* validation; past the validation they are those of C22.
ExitCodesPastValidation ==
    Exited =>
        /\ ~Validated => exitCode = 1 /\ requests = <<>>
        /\ Validated =>
            /\ (AnalysisSucceeded /\ ~CriticalOrHighFound) => exitCode = 0
            /\ exitCode = 1 => (AnalysisSucceeded /\ CriticalOrHighFound)
            /\ ~AnalysisSucceeded => exitCode = 2

ExitCodesPastValidation_Witness ==
    /\ Exited
    /\ AnalysisSucceeded
    /\ options.severity = "critical"
    /\ "high" \notin ReportedSeverities
    /\ \E d \in DOMAIN env.primary.data.results.dependencies :
        \E v \in DOMAIN env.primary.data.results.dependencies[d].vulnerabilities :
            env.primary.data.results.dependencies[d].vulnerabilities[v].severity = "high"
    /\ exitCode = 0

\* A valid --ecosystem.
ForcedEcosystem ==
    options.ecosystem \in {"npm", "pypi", "maven", "nuget", "rubygems", "composer", "go", "cargo"}

\* The selection of the manifest failed.
SelectionFailed == outcome # Null /\ outcome.op = "select" /\ outcome.error # "none"

\* C23: run with a valid --ecosystem E, the command parses and analyses the
\* manifest with ecosystem E whenever it reaches parsing, with --file and
\* with auto-detection (also when no detected file belongs to E), and with
\* --file the forced ecosystem is enough for the file to be accepted, even
\* when its content matches no signature.
C23_EcosystemForced ==
    (ForcedEcosystem /\ Validated) =>
        /\ pc \in {"selected", "parsed"} => ecosystem = options.ecosystem
        /\ parsedDeps # Null => parsedDeps.ecosystem = options.ecosystem
        /\ requests # <<>> => requests[1].data.ecosystem = options.ecosystem
        /\ options.file # Undefined => ~SelectionFailed

\* What --ecosystem does: with --file, a file detectFile recognises is
\* parsed and analysed with E; without --file, the manifest is parsed with
\* the ecosystem of the file getBestFile returns, which is E when a detected
\* file belongs to E.
EcosystemPreferred ==
    (ForcedEcosystem /\ Validated) =>
        /\ (options.file # Undefined /\ parsedDeps # Null) => parsedDeps.ecosystem = options.ecosystem
        /\ (options.file = Undefined /\ parsedDeps # Null) =>
            /\ parsedDeps.ecosystem = bestFile.ecosystem
            /\ (\E i \in DOMAIN given : given[i].ecosystem = options.ecosystem)
                => bestFile.ecosystem = options.ecosystem
        /\ requests # <<>> => requests[1].data.ecosystem = parsedDeps.ecosystem

EcosystemPreferred_Witness ==
    /\ ForcedEcosystem
    /\ options.file = Undefined
    /\ Len(given) = 2
    /\ given[1].ecosystem # options.ecosystem
    /\ bestFile.ecosystem = options.ecosystem
    /\ requests # <<>>

\* Detection yields no file: the command is run without --file in a
\* project directory that holds no manifest.
NoFilesDetected ==
    /\ options.file = Undefined
    /\ \A path \in disk : BaseName(path) \notin {"package.json", "requirements.txt"}
    /\ ProjectPath \o <<"vulnify-report.json">> \notin disk

\* Parsing yields zero dependencies.
ZeroDependencies == parsedDeps # Null /\ parsedDeps.dependencies = <<>>

PipelineState ==
    /\ requests # <<>> =>
        /\ bestFile # Null
        /\ parsedDeps # Null
        /\ parsedDeps.source_file = bestFile.path
        /\ Len(parsedDeps.dependencies) >= 1
        /\ \A i \in DOMAIN requests :
            requests[i].data = [ecosystem |-> parsedDeps.ecosystem,
                                dependencies |-> parsedDeps.dependencies]
    /\ parsedDeps # Null => bestFile # Null
    /\ (Exited /\ Validated /\ NoFilesDetected) => exitCode = 2 /\ requests = <<>>
    /\ ZeroDependencies => Exited /\ exitCode = 2 /\ requests = <<>>

PipelineStep ==
    /\ bestFile' # bestFile => parsedDeps = Null /\ requests = <<>>
    /\ parsedDeps' # parsedDeps => bestFile' = bestFile /\ bestFile # Null /\ requests = <<>>
    /\ requests' # requests => parsedDeps' = parsedDeps /\ bestFile' = bestFile /\ parsedDeps # Null

\* C29: the steps of the command run in the order detect, parse, analyse.
\* A request is sent only after a manifest was selected and parsed into at
\* least one dependency, and it carries exactly the parsed ecosystem and
\* list of dependencies; when detection yields no file or parsing yields no
\* dependency the command ends in the error exit without a request.
C29_Pipeline == []PipelineState /\ [][PipelineStep]_vars

C29_Witness ==
    /\ Exited
    /\ options.file = Undefined
    /\ Len(given) = 2
    /\ Len(requests) = 1
    /\ requests[1].data.dependencies = parsedDeps.dependencies
    /\ Len(parsedDeps.dependencies) = 1
    /\ exitCode = 1

====
